---- MODULE Spec2Model ----
(***************************************************************************)
(* The tutorial notebooks of creme (docs/notebooks): the scripts they run  *)
(* against the compose / feature_extraction / model_selection API, as     *)
(* state machines.  One specification per notebook scenario:              *)
(*   SpecLoop     - "The art of using pipelines": the procedural loop,    *)
(*                  the declarative pipeline loop and the five ways of    *)
(*                  building the same pipeline;                           *)
(*   SpecBike     - "Example usage" and "Bike-sharing forecasting":       *)
(*                  step-by-step model construction and progressive       *)
(*                  validation with delayed answers (SpecBikeFair: the    *)
(*                  same, every cell run to its end);                     *)
(*   SpecProgress - the progress lines of progressive_val_score;          *)
(*   SpecZero     - progressive validation with and without a delay, on   *)
(*                  streams whose moments may tie;                        *)
(*   SpecCells    - the code cells of the four notebooks, statement by    *)
(*                  statement, in the order of the document;              *)
(*   SpecSampler  - "Working with imbalanced data": the sampling          *)
(*                  wrappers around the classifier;                       *)
(*   SpecHedge    - the HedgeRegressor over three linear regressions.     *)
(***************************************************************************)
EXTENDS Integers, Sequences, FiniteSets, TLC

VARIABLES
    nb,        \* the notebook cell (scenario) being run
    pc,        \* position in the cell's script
    X_y,       \* the stream: a sequence of observations [x, y]
    i,         \* number of observations read from the stream so far
    x,         \* the loop variable x (a dict: key -> value)
    k,         \* position in an inner for loop (for mean in means, for key in [...])
    model,     \* the `model` variable: the structure of the estimator
    st,        \* the fitted state of the estimators
    ref,       \* fitted state of the named pipeline run on the same stream
    y_pred,    \* the last prediction
    log,       \* model operations performed so far, in order
    metric,    \* metric.update calls so far: <<observation, prediction>>
    mementos,  \* simulate_qa: observations waiting for their answer
    preds,     \* progressive_val_score: predictions waiting for their answer
    n_total_answers,  \* progressive_val_score: answers revealed so far
    printed,   \* lines printed so far; a progress line is kept as the count it shows
    call,      \* the evaluation call followed, by the length of its stream and
               \* its print_every
    stmt,      \* SpecCells: the place in the notebook of the statement to run next
    names,     \* SpecCells: the names bound so far in the notebook's namespace
    it,        \* SpecCells: what X_y is bound to, and how far it was consumed
    trained,   \* SpecCells: the observations `model` was fitted on since it was built
    sampler,   \* SpecSampler: the counts and the pivot of the sampling wrapper
    hedge      \* SpecHedge: the sub-models of the ensemble and their states

vars == <<nb, pc, X_y, i, x, k, model, st, ref, y_pred, log, metric,
          mementos, preds, n_total_answers, printed, call,
          stmt, names, it, trained, sampler, hedge>>

\* variables of the notebook scripts as wholes
ScriptVars ==
    <<stmt, names, it, trained>>

\* variables of the wrapping estimators
WrapVars ==
    <<sampler, hedge>>

\* X_y before any statement has bound it
NoStream ==
    [kind |-> "unbound", pos |-> 0, users |-> <<>>]

\* before RandomUnderSampler(...) is constructed
NoSampler ==
    [kind |-> "", actual_dist |-> <<>>, seen |-> <<>>, pivot |-> {}]

\* before HedgeRegressor([...]) is constructed
NoHedge ==
    [regressors |-> <<>>, fitted |-> <<>>, weights |-> <<>>, pending |-> {}]

\* the values of the variables a specification does not use
Unused ==
    /\ stmt = 0
    /\ names = {}
    /\ it = NoStream
    /\ trained = <<>>
    /\ sampler = NoSampler
    /\ hedge = NoHedge

(***************************************************************************)
(* Bounds of the model.                                                    *)
(***************************************************************************)
MaxLen == 3
\* longest Restaurants stream explored

MaxBikes == 3
\* longest Bikes stream explored

(***************************************************************************)
(* Python values.  A dict is a function from its keys; a value carries the *)
(* number it holds and the set of observations whose targets it was        *)
(* computed from.                                                          *)
(***************************************************************************)
Val(v) ==
    [raw |-> v, deps |-> {}, scaled |-> FALSE]

EmptyDict ==
    [key \in {} |-> Val(0)]

\* {**a, **b}
Merge(a, b) ==
    [key \in DOMAIN a \cup DOMAIN b |-> IF key \in DOMAIN b THEN b[key] ELSE a[key]]

\* a dict without one key (x.pop(key) on a present key)
Without(d, key) ==
    [kk \in DOMAIN d \ {key} |-> d[kk]]

Range(s) ==
    {s[n] : n \in DOMAIN s}

RECURSIVE JoinStr(_, _)
JoinStr(s, sep) ==
    IF s = <<>> THEN ""
    ELSE IF Len(s) = 1 THEN s[1]
    ELSE s[1] \o sep \o JoinStr(Tail(s), sep)

\* str(('a', 'b')) of a tuple of two or more strings
TupleStr(keys) ==
    "(" \o JoinStr([n \in DOMAIN keys |-> "'" \o keys[n] \o "'"], ", ") \o ")"

\* body(v), v being evaluated once, as Python evaluates the argument of a call
With(v, body(_)) ==
    CHOOSE r \in {body(w) : w \in {v}} : TRUE

Get(f, key, default) ==
    IF key \in DOMAIN f THEN f[key] ELSE default

Put(f, key, v) ==
    [kk \in DOMAIN f \cup {key} |-> IF kk = key THEN v ELSE f[kk]]

(***************************************************************************)
(* Estimators.  Every estimator is a record of the same shape: its class,  *)
(* its key arguments, its statistic (TargetAgg) and its named parts        *)
(* (TransformerUnion, Pipeline).                                           *)
(***************************************************************************)
NoStat ==
    [stat |-> "", size |-> 0, name |-> ""]

Estimator(kind, keys, how, parts) ==
    [kind |-> kind, keys |-> keys, how |-> how, parts |-> parts]

\* stats.RollingMean(n), stats.Mean(), stats.EWMean(0.5) and their names
RollingMean(n) ==
    [stat |-> "RollingMean", size |-> n, name |-> "rolling_rollingmean_" \o ToString(n)]

Mean ==
    [stat |-> "Mean", size |-> 0, name |-> "mean"]

EWMean05 ==
    [stat |-> "EWMean", size |-> 0, name |-> "ewm_0.5"]

Select(keys) ==
    Estimator("Select", keys, NoStat, <<>>)

Discard(keys) ==
    Estimator("Discard", keys, NoStat, <<>>)

\* a plain Python function, not yet wrapped
Function(name) ==
    Estimator("function", <<name>>, NoStat, <<>>)

FuncTransformer(f) ==
    Estimator("FuncTransformer", f.keys, NoStat, <<>>)

TargetAgg(by, how) ==
    Estimator("TargetAgg", by, how, <<>>)

StandardScaler ==
    Estimator("StandardScaler", <<>>, NoStat, <<>>)

LinearRegression ==
    Estimator("LinearRegression", <<>>, NoStat, <<>>)

\* a step given as (name, estimator); name "" stands for a step given without a name
Step(name, est) ==
    [name |-> name, est |-> est]

Unnamed(est) ==
    Step("", est)

\* TargetAgg.feature_name: f'{target_name}_{how.name}_by_{"_and_".join(by)}'
feature_name(t) ==
    "target_" \o t.how.name \o "_by_" \o JoinStr(t.keys, "_and_")

\* str(estimator), the name inferred for a step given without one
RECURSIVE Str(_)
Str(e) ==
    CASE e.kind = "Select" -> TupleStr(e.keys)
      [] e.kind = "Discard" -> "~" \o TupleStr(e.keys)
      [] e.kind = "FuncTransformer" -> e.keys[1]
      [] e.kind = "function" -> e.keys[1]
      [] e.kind = "TargetAgg" -> feature_name(e)
      [] e.kind = "TransformerUnion" ->
            JoinStr([n \in DOMAIN e.parts |-> Str(e.parts[n].est)], " + ")
      [] e.kind = "Pipeline" ->
            JoinStr([n \in DOMAIN e.parts |-> Str(e.parts[n].est)], " | ")
      [] OTHER -> e.kind

Names(e) ==
    {e.parts[n].name : n \in DOMAIN e.parts}

\* the while loop of add_step: name1, name2, ... until one is free
RECURSIVE FreeName(_, _, _)
FreeName(name, taken, counter) ==
    IF (name \o ToString(counter)) \notin taken
    THEN name \o ToString(counter)
    ELSE FreeName(name, taken, counter + 1)

\* add_step: wrap a function, infer a missing name, keep names unique, store
add_step(self, step, at_start) ==
    LET est == IF step.est.kind = "function" THEN FuncTransformer(step.est) ELSE step.est
    IN  With(IF step.name = "" THEN Str(est) ELSE step.name, LAMBDA given :
        With(IF given \in Names(self) THEN FreeName(given, Names(self), 1) ELSE given,
             LAMBDA name :
                [self EXCEPT !.parts = IF at_start THEN <<Step(name, est)>> \o @
                                       ELSE Append(@, Step(name, est))]))

RECURSIVE AddSteps(_, _)
AddSteps(self, steps) ==
    IF steps = <<>> THEN self
    ELSE With(add_step(self, Head(steps), FALSE),
              LAMBDA next : AddSteps(next, Tail(steps)))

\* compose.Pipeline(*steps)
Pipeline(steps) ==
    AddSteps(Estimator("Pipeline", <<>>, NoStat, <<>>), steps)

\* compose.TransformerUnion(*transformers)
TransformerUnion(steps) ==
    AddSteps(Estimator("TransformerUnion", <<>>, NoStat, <<>>), steps)

\* a | b
Or(a, b) ==
    IF a.kind = "Pipeline" THEN add_step(a, Unnamed(b), FALSE)
    ELSE IF b.kind = "Pipeline" THEN add_step(b, Unnamed(a), TRUE)
    ELSE Pipeline(<<Unnamed(a), Unnamed(b)>>)

\* a + b
Add(a, b) ==
    IF a.kind = "TransformerUnion" THEN add_step(a, Unnamed(b), FALSE)
    ELSE IF b.kind = "TransformerUnion" /\ a.kind # "function"
         THEN add_step(b, Unnamed(a), FALSE)
    ELSE TransformerUnion(<<Unnamed(a), Unnamed(b)>>)

(***************************************************************************)
(* Fitted state.  agg maps <<feature name, group key>> to the observations *)
(* whose targets the group was updated with, oldest first; scaler counts   *)
(* its fit_one calls and the keys it has seen; lin_reg lists the           *)
(* observations it was fitted with and the keys it holds weights for.      *)
(***************************************************************************)
Unfitted ==
    [agg |-> [g \in {} |-> <<>>],
     scaler |-> [n |-> 0, keys |-> {}],
     lin_reg |-> [fitted |-> <<>>, weights |-> {}]]

RECURSIVE SumTargets(_, _)
SumTargets(stream, idx) ==
    IF idx = {} THEN 0
    ELSE LET j == CHOOSE n \in idx : TRUE
         IN  stream[j].y + SumTargets(stream, idx \ {j})

\* the observations a statistic currently averages over
Window(how, history) ==
    IF how.stat = "RollingMean" /\ Len(history) > how.size
    THEN SubSeq(history, Len(history) - how.size + 1, Len(history))
    ELSE history

\* the group of x: the values of the `by` keys
GroupKey(t, xx) ==
    <<feature_name(t), [n \in DOMAIN t.keys |-> xx[t.keys[n]].raw]>>

\* TargetAgg.transform_one: {feature_name: groups[key].get()}.  The value is
\* the mean of the targets in the window: their sum over their number.
AggGet(t, s, xx) ==
    LET w == Range(Window(t.how, Get(s.agg, GroupKey(t, xx), <<>>)))
    IN  [raw |-> SumTargets(X_y, w), deps |-> w, scaled |-> FALSE]

\* TargetAgg.fit_one(x, y): groups[key].update(y), y being the target of observation j
AggUpdate(t, s, xx, j) ==
    [s EXCEPT !.agg = Put(@, GroupKey(t, xx),
                          Window(t.how, Append(Get(@, GroupKey(t, xx), <<>>), j)))]

\* StandardScaler.fit_one(x)
ScalerFit(s, xx) ==
    [s EXCEPT !.scaler = [n |-> @.n + 1, keys |-> @.keys \cup DOMAIN xx]]

\* StandardScaler.transform_one(x): the same keys, each value rescaled
ScalerTransform(xx) ==
    [key \in DOMAIN xx |-> [xx[key] EXCEPT !.scaled = TRUE]]

\* LinearRegression.fit_one(x, y), y being the target of observation j
LinRegFit(s, xx, j) ==
    [s EXCEPT !.lin_reg = [fitted |-> Append(@.fitted, j),
                           weights |-> @.weights \cup DOMAIN xx]]

\* LinearRegression.predict_one(x): a value of the features given and of the
\* targets the regression and the features were fitted with
LinRegPredict(s, xx) ==
    [keys |-> DOMAIN xx,
     deps |-> Range(s.lin_reg.fitted) \cup UNION {xx[key].deps : key \in DOMAIN xx}]

NoPrediction ==
    [keys |-> {}, deps |-> {}]

(***************************************************************************)
(* The functions the notebooks define.                                     *)
(***************************************************************************)
\* x['date'].weekday()
Weekday(date) ==
    date % 7

\* def get_date_features(x): a new dict with weekday and is_weekend
get_date_features(xx) ==
    LET weekday == Weekday(xx["date"].raw)
    IN  [key \in {"weekday", "is_weekend"} |->
            IF key = "weekday" THEN Val(weekday)
            ELSE Val(IF weekday \in {5, 6} THEN 1 ELSE 0)]

\* def add_hour(x) / def get_hour(x): x['hour'] = x['moment'].hour; return x.
\* Moments are counted in slots of ten minutes, six to the hour.
add_hour(xx) ==
    Merge(xx, [key \in {"hour"} |-> Val((xx["moment"].raw \div 6) % 24)])

\* FuncTransformer.transform_one(x): func(x)
Call(fname, xx) ==
    IF fname = "get_date_features" THEN get_date_features(xx) ELSE add_hour(xx)

\* whether func(x) writes into the dict it is given
WritesItsArgument(e) ==
    e.kind = "FuncTransformer" /\ e.keys[1] # "get_date_features"

(***************************************************************************)
(* transform_one, fit_one and predict_one of the composed estimators.      *)
(***************************************************************************)
IsSupervisedKind(kind) ==
    kind \in {"TargetAgg", "LinearRegression"}

RECURSIVE is_supervised(_)
is_supervised(e) ==
    \/ IsSupervisedKind(e.kind)
    \/ \E n \in DOMAIN e.parts : is_supervised(e.parts[n].est)

RECURSIVE TransformOne(_, _, _)
RECURSIVE InPlace(_, _)
RECURSIVE UnionOut(_, _, _)
RECURSIVE PipeOut(_, _, _)

\* the caller's dict after e.transform_one(x) has run: a function that writes
\* into its argument leaves the new key in it, and hands the same dict on
InPlace(e, xx) ==
    IF WritesItsArgument(e) THEN Call(e.keys[1], xx)
    ELSE IF e.kind = "TransformerUnion" /\ e.parts # <<>>
         THEN With(InPlace(Head(e.parts).est, xx),
                   LAMBDA x1 : InPlace([e EXCEPT !.parts = Tail(@)], x1))
    ELSE IF e.kind = "Pipeline" /\ e.parts # <<>> /\ WritesItsArgument(Head(e.parts).est)
         THEN With(InPlace(Head(e.parts).est, xx),
                   LAMBDA x1 : InPlace([e EXCEPT !.parts = Tail(@)], x1))
    ELSE xx

\* a union that hands on its input beside the outputs of its parts
UnionOutWithInput(parts, s, xx) ==
    IF parts = <<>> THEN xx
    ELSE With(InPlace(Head(parts).est, xx), LAMBDA x1 :
         With(UnionOut(Tail(parts), s, x1), LAMBDA rest :
         With(TransformOne(Head(parts).est, s, xx), LAMBDA out :
              Merge(rest, out))))

\* TransformerUnion.transform_one: dict(ChainMap(*(t.transform_one(x) for t in parts))),
\* the same dict x being handed to every part in turn
UnionOut(parts, s, xx) ==
    IF parts = <<>> THEN EmptyDict
    ELSE With(InPlace(Head(parts).est, xx), LAMBDA x1 :
         With(UnionOut(Tail(parts), s, x1), LAMBDA rest :
         With(TransformOne(Head(parts).est, s, xx), LAMBDA out :
              Merge(rest, out))))

\* a pipeline of transformers: each step transforms the output of the one before
PipeOut(parts, s, xx) ==
    IF parts = <<>> THEN xx
    ELSE With(TransformOne(Head(parts).est, s, xx),
              LAMBDA out : PipeOut(Tail(parts), s, out))

TransformOne(e, s, xx) ==
    CASE e.kind = "Select" -> [key \in Range(e.keys) |-> xx[key]]
      [] e.kind = "Discard" -> [key \in DOMAIN xx \ Range(e.keys) |-> xx[key]]
      [] e.kind = "FuncTransformer" -> Call(e.keys[1], xx)
      [] e.kind = "TargetAgg" -> [key \in {feature_name(e)} |-> AggGet(e, s, xx)]
      [] e.kind = "StandardScaler" -> ScalerTransform(xx)
      [] e.kind = "TransformerUnion" -> UnionOut(e.parts, s, xx)
      [] e.kind = "Pipeline" -> PipeOut(e.parts, s, xx)
      [] OTHER -> xx

Front(parts) ==
    SubSeq(parts, 1, Len(parts) - 1)

Last(parts) ==
    parts[Len(parts)].est

\* Pipeline.transform_one fits the parts that need no target before using them
RECURSIVE FitUnsupervised(_, _, _)
FitUnsupervised(e, s, xx) ==
    IF e.kind = "StandardScaler" THEN ScalerFit(s, xx)
    ELSE IF e.kind = "TransformerUnion" /\ e.parts # <<>>
         THEN With(FitUnsupervised(Head(e.parts).est, s, xx),
                   LAMBDA s1 : FitUnsupervised([e EXCEPT !.parts = Tail(@)], s1, xx))
    ELSE s

\* the transformers of a pipeline run on x: the features and the state they leave
RECURSIVE RunTransformers(_, _, _)
RunTransformers(parts, s, xx) ==
    IF parts = <<>> THEN [x |-> xx, st |-> s]
    ELSE LET t == Head(parts).est
         IN  With(FitUnsupervised(t, s, xx), LAMBDA s1 :
             With(TransformOne(t, s1, xx), LAMBDA out :
                  RunTransformers(Tail(parts), s1, out)))

\* Pipeline.predict_one(x): transform through every step but the last, predict with the last
PredictOne(m, s, xx) ==
    With(RunTransformers(Front(m.parts), s, xx), LAMBDA r :
         [y_pred |-> LinRegPredict(r.st, r.x), st |-> r.st, features |-> r.x])

RECURSIVE FitOne(_, _, _, _)
RECURSIVE FitParts(_, _, _, _)
RECURSIVE FitSteps(_, _, _, _)
RECURSIVE FitAll(_, _, _, _)

\* TransformerUnion.fit_one(x, y): every part is fitted with x and y
FitAll(parts, s, xx, j) ==
    IF parts = <<>> THEN s
    ELSE With(FitOne(Head(parts).est, s, xx, j), LAMBDA s1 :
         With(InPlace(Head(parts).est, xx), LAMBDA x1 :
              FitAll(Tail(parts), s1, x1, j)))

\* the supervised parts of a union are each fitted with the union's input
FitParts(parts, s, xx, j) ==
    IF parts = <<>> THEN s
    ELSE LET t == Head(parts).est
         IN  With(IF is_supervised(t) THEN FitOne(t, s, xx, j) ELSE s, LAMBDA s1 :
             With(InPlace(t, xx), LAMBDA x1 :
                  FitParts(Tail(parts), s1, x1, j)))

\* the loop of Pipeline.fit_one over the steps before the last: transform, then
\* update the supervised transformers with the input they were given
FitSteps(parts, s, xx, j) ==
    IF parts = <<>> THEN [x |-> xx, st |-> s]
    ELSE LET t == Head(parts).est
             fitted == IF t.kind = "TransformerUnion" THEN FitParts(t.parts, s, xx, j)
                       ELSE IF is_supervised(t) THEN FitOne(t, s, xx, j)
                       ELSE s
         IN  With(TransformOne(t, s, xx), LAMBDA out :
             With(fitted, LAMBDA s1 :
                  FitSteps(Tail(parts), s1, out, j)))

\* fit_one(x, y), y being the target of observation j
FitOne(e, s, xx, j) ==
    CASE e.kind = "TargetAgg" -> AggUpdate(e, s, xx, j)
      [] e.kind = "LinearRegression" -> LinRegFit(s, xx, j)
      [] e.kind = "StandardScaler" -> ScalerFit(s, xx)
      [] e.kind = "TransformerUnion" -> FitAll(e.parts, s, xx, j)
      [] e.kind = "Pipeline" ->
            With(FitSteps(Front(e.parts), s, xx, j), LAMBDA r :
                 FitOne(Last(e.parts), r.st, r.x, j))
      [] OTHER -> s

(***************************************************************************)
(* "The art of using pipelines": the cells of the notebook.                *)
(***************************************************************************)
\* the keys that are not features
to_discard ==
    <<"store_id", "date", "genre_name", "area_name", "latitude", "longitude">>

\* by='store_id', how=stats.RollingMean(n)
StoreMean(n) ==
    TargetAgg(<<"store_id">>, RollingMean(n))

\* means = (TargetAgg(... RollingMean(7)), ... RollingMean(14)), ... RollingMean(21)))
means ==
    <<StoreMean(7), StoreMean(14), StoreMean(21)>>

\* the pipeline with named steps
ModelNamed ==
    Pipeline(<<
        Step("features", TransformerUnion(<<
            Step("date_features", FuncTransformer(Function("get_date_features"))),
            Step("last_7_mean", StoreMean(7)),
            Step("last_14_mean", StoreMean(14)),
            Step("last_21_mean", StoreMean(21))>>)),
        Step("drop_non_features", Discard(to_discard)),
        Step("scale", StandardScaler),
        Step("lin_reg", LinearRegression)>>)

\* the unnamed pipeline with the scaler placed before the Discard
ModelUnnamedScaleFirst ==
    Pipeline(<<
        Unnamed(TransformerUnion(<<
            Unnamed(FuncTransformer(Function("get_date_features"))),
            Unnamed(StoreMean(7)),
            Unnamed(StoreMean(14)),
            Unnamed(StoreMean(21))>>)),
        Unnamed(StandardScaler),
        Unnamed(Discard(to_discard)),
        Unnamed(LinearRegression)>>)

\* the same pipeline, the names omitted
ModelUnnamed ==
    Pipeline(<<
        Unnamed(TransformerUnion(<<
            Unnamed(FuncTransformer(Function("get_date_features"))),
            Unnamed(StoreMean(7)),
            Unnamed(StoreMean(14)),
            Unnamed(StoreMean(21))>>)),
        Unnamed(Discard(to_discard)),
        Unnamed(StandardScaler),
        Unnamed(LinearRegression)>>)

\* the transformers merged with +
ModelPlus ==
    Pipeline(<<
        Unnamed(Add(Add(Add(FuncTransformer(Function("get_date_features")),
                            StoreMean(7)), StoreMean(14)), StoreMean(21))),
        Unnamed(Discard(to_discard)),
        Unnamed(StandardScaler),
        Unnamed(LinearRegression)>>)

\* the steps assembled with | and |=
ModelPipe ==
    LET features == Add(Add(Add(FuncTransformer(Function("get_date_features")),
                                StoreMean(7)), StoreMean(14)), StoreMean(21))
        scaled == Or(Or(features, Discard(to_discard)), StandardScaler)
    IN  Or(scaled, LinearRegression)

\* for n in [7, 14, 21]: model += TargetAgg(by='store_id', how=stats.RollingMean(n))
RECURSIVE AddMeans(_, _)
AddMeans(m, sizes) ==
    IF sizes = <<>> THEN m
    ELSE AddMeans(Add(m, StoreMean(Head(sizes))), Tail(sizes))

\* the loop run over [7, 14] only
ModelFuncTwoMeans ==
    LET features == AddMeans(Function("get_date_features"), <<7, 14>>)
    IN  Or(Or(Or(features, Discard(to_discard)), StandardScaler), LinearRegression)

\* model = get_date_features, then += in a loop, then three |=
ModelFunc ==
    LET features == AddMeans(Function("get_date_features"), <<7, 14, 21>>)
    IN  Or(Or(Or(features, Discard(to_discard)), StandardScaler), LinearRegression)

\* the cells of the notebook that build and run a model
PipelineCells ==
    {"loop", "named", "unnamed", "plus", "pipe", "func"}

\* the cells that evaluate with progressive_val_score
PvsCells ==
    {"named", "unnamed", "plus", "pipe", "func"}

\* the model each cell builds
CellModel(cell) ==
    CASE cell = "loop" -> ModelNamed
      [] cell = "named" -> ModelNamed
      [] cell = "unnamed" -> ModelUnnamed
      [] cell = "plus" -> ModelPlus
      [] cell = "pipe" -> ModelPipe
      [] cell = "func" -> ModelFunc
      [] OTHER -> Pipeline(<<>>)

\* one observation of datasets.Restaurants(): its seven keys
RestaurantsX(store, date) ==
    [key \in {"area_name", "date", "genre_name", "is_holiday",
              "latitude", "longitude", "store_id"} |->
        CASE key = "store_id" -> Val(store)
          [] key = "date" -> Val(date)
          [] key = "is_holiday" -> Val(IF date = 4 THEN 1 ELSE 0)
          [] OTHER -> Val(0)]

Stores ==
    {1, 2}

\* day numbers: day 4 is a Friday and a holiday, day 5 a Saturday
Dates ==
    {4, 5}

Targets ==
    {1, 2}

RestaurantsObs ==
    {[x |-> RestaurantsX(s, d), y |-> t] : s \in Stores, d \in Dates, t \in Targets}

\* the streams explored: up to MaxLen observations, in the order of their dates
RestaurantsStreams ==
    {s \in UNION {[1..n -> RestaurantsObs] : n \in 1..MaxLen} :
        \A n \in 1..(Len(s) - 1) : s[n].x["date"].raw <= s[n + 1].x["date"].raw}

(***************************************************************************)
(* The order of the statements in the bodies of the two for loops.         *)
(***************************************************************************)
\* the body of the procedural loop; "means" and "pop" are its inner loops
ProcBody ==
    <<"date_features", "means", "pop", "scale", "predict_one", "fit_one", "metric_update">>

\* the inner loop with its two statements exchanged: fitted before transformed
MeanBodyFitFirst ==
    <<"mean.fit_one", "mean.transform_one">>

\* for mean in means: x = {**x, **mean.transform_one(x)}; mean.fit_one(x, y)
MeanBody ==
    <<"mean.transform_one", "mean.fit_one">>

\* the list of popped keys naming store_id a second time
non_features_twice ==
    <<"store_id", "date", "genre_name", "area_name", "latitude", "longitude", "store_id">>

\* for key in [...]: x.pop(key)
non_features ==
    <<"store_id", "date", "genre_name", "area_name", "latitude", "longitude">>

\* the pipeline loop with the model updated before it predicts
LoopBodyFitFirst ==
    <<"fit_one", "predict_one", "metric_update">>

\* the body of the pipeline loop
LoopBody ==
    <<"predict_one", "fit_one", "metric_update">>

IndexOf(body, label) ==
    CHOOSE n \in DOMAIN body : body[n] = label

\* where control goes on reaching a statement: an inner loop starts at its first pass
Enter(label) ==
    [pc |-> IF label = "means" THEN MeanBody[1] ELSE label, k |-> 1]

\* the statement after `label` in `body`; after the last one, back to the for
NextOf(body, label) ==
    IF IndexOf(body, label) = Len(body) THEN Enter("for")
    ELSE Enter(body[IndexOf(body, label) + 1])

\* where control goes after a statement of the procedural loop, in pass kk of
\* the inner loop it may belong to
ProcAfter(label, kk) ==
    IF label \in Range(MeanBody)
    THEN IF IndexOf(MeanBody, label) < Len(MeanBody)
         THEN [pc |-> MeanBody[IndexOf(MeanBody, label) + 1], k |-> kk]
         ELSE IF kk < Len(means) THEN [pc |-> MeanBody[1], k |-> kk + 1]
         ELSE NextOf(ProcBody, "means")
    ELSE IF label = "pop" /\ kk < Len(non_features) THEN [pc |-> "pop", k |-> kk + 1]
    ELSE NextOf(ProcBody, label)

Event(op, j) ==
    [op |-> op, i |-> j]

\* no evaluation call is followed
NoCall ==
    [n_observations |-> 0, print_every |-> 0]

NoRef ==
    [st |-> Unfitted, y_pred |-> NoPrediction]

\* variables of progressive_val_score, untouched by the explicit loops
PvsVars ==
    <<mementos, preds, n_total_answers, printed>>

(***************************************************************************)
(* The procedural loop.  As each of its statements runs, the named         *)
(* pipeline is run on the same observation (ref), so that the two can be   *)
(* compared.                                                               *)
(***************************************************************************)
\* for x, y in datasets.Restaurants(): the next observation, or print(metric)
ProcFor ==
    /\ nb = "procedural" /\ pc = "for"
    /\ IF i < Len(X_y)
       THEN /\ i' = i + 1
            /\ x' = X_y[i + 1].x
            /\ pc' = Enter(ProcBody[1]).pc
            /\ k' = Enter(ProcBody[1]).k
            /\ log' = Append(log, Event("read", i + 1))
       ELSE /\ pc' = "done"
            /\ UNCHANGED <<i, x, k, log>>
    /\ UNCHANGED <<X_y, nb, model, st, ref, y_pred, metric, PvsVars>>
    /\ UNCHANGED <<call, ScriptVars, WrapVars>>

\* x['weekday'] = x['date'].weekday(); x['is_weekend'] = x['date'].weekday() in (5, 6)
ProcDateFeatures ==
    /\ nb = "procedural" /\ pc = "date_features"
    /\ x' = Merge(x, get_date_features(x))
    /\ pc' = ProcAfter(pc, k).pc
    /\ k' = ProcAfter(pc, k).k
    /\ UNCHANGED <<X_y, nb, i, model, st, ref, y_pred, log, metric, PvsVars>>
    /\ UNCHANGED <<call, ScriptVars, WrapVars>>

\* x = {**x, **mean.transform_one(x)}
ProcMeanTransform ==
    /\ nb = "procedural" /\ pc = "mean.transform_one"
    /\ x' = Merge(x, TransformOne(means[k], st, x))
    /\ pc' = ProcAfter(pc, k).pc
    /\ k' = ProcAfter(pc, k).k
    /\ UNCHANGED <<X_y, nb, i, model, st, ref, y_pred, log, metric, PvsVars>>
    /\ UNCHANGED <<call, ScriptVars, WrapVars>>

\* mean.fit_one(x, y)
ProcMeanFit ==
    /\ nb = "procedural" /\ pc = "mean.fit_one"
    /\ st' = FitOne(means[k], st, x, i)
    /\ pc' = ProcAfter(pc, k).pc
    /\ k' = ProcAfter(pc, k).k
    /\ UNCHANGED <<X_y, nb, i, x, model, ref, y_pred, log, metric, PvsVars>>
    /\ UNCHANGED <<call, ScriptVars, WrapVars>>

\* x.pop(key): raises KeyError when x does not hold the key
ProcPop ==
    /\ nb = "procedural" /\ pc = "pop"
    /\ IF non_features[k] \in DOMAIN x
       THEN /\ x' = Without(x, non_features[k])
            /\ pc' = ProcAfter(pc, k).pc
            /\ k' = ProcAfter(pc, k).k
       ELSE /\ pc' = "KeyError"
            /\ UNCHANGED <<x, k>>
    /\ UNCHANGED <<X_y, nb, i, model, st, ref, y_pred, log, metric, PvsVars>>
    /\ UNCHANGED <<call, ScriptVars, WrapVars>>

\* x = scaler.fit_one(x, y).transform_one(x)
ProcScale ==
    /\ nb = "procedural" /\ pc = "scale"
    /\ st' = ScalerFit(st, x)
    /\ x' = ScalerTransform(x)
    /\ pc' = ProcAfter(pc, k).pc
    /\ k' = ProcAfter(pc, k).k
    /\ UNCHANGED <<X_y, nb, i, model, ref, y_pred, log, metric, PvsVars>>
    /\ UNCHANGED <<call, ScriptVars, WrapVars>>

\* y_pred = lin_reg.predict_one(x)
ProcPredict ==
    /\ nb = "procedural" /\ pc = "predict_one"
    /\ y_pred' = LinRegPredict(st, x)
    /\ ref' = [st |-> PredictOne(ModelNamed, ref.st, X_y[i].x).st,
               y_pred |-> PredictOne(ModelNamed, ref.st, X_y[i].x).y_pred]
    /\ log' = Append(log, Event("predict_one", i))
    /\ pc' = ProcAfter(pc, k).pc
    /\ k' = ProcAfter(pc, k).k
    /\ UNCHANGED <<X_y, nb, i, x, model, st, metric, PvsVars>>
    /\ UNCHANGED <<call, ScriptVars, WrapVars>>

\* lin_reg.fit_one(x, y)
ProcFit ==
    /\ nb = "procedural" /\ pc = "fit_one"
    /\ st' = LinRegFit(st, x, i)
    /\ ref' = [ref EXCEPT !.st = FitOne(ModelNamed, @, X_y[i].x, i)]
    /\ log' = Append(log, Event("fit_one", i))
    /\ pc' = ProcAfter(pc, k).pc
    /\ k' = ProcAfter(pc, k).k
    /\ UNCHANGED <<X_y, nb, i, x, model, y_pred, metric, PvsVars>>
    /\ UNCHANGED <<call, ScriptVars, WrapVars>>

\* metric.update(y, y_pred)
ProcMetric ==
    /\ nb = "procedural" /\ pc = "metric_update"
    /\ metric' = Append(metric, [i |-> i, y_pred |-> y_pred])
    /\ pc' = ProcAfter(pc, k).pc
    /\ k' = ProcAfter(pc, k).k
    /\ UNCHANGED <<X_y, nb, i, x, model, st, ref, y_pred, log, PvsVars>>
    /\ UNCHANGED <<call, ScriptVars, WrapVars>>

(***************************************************************************)
(* The cells that build a pipeline.                                        *)
(***************************************************************************)
NoModel ==
    Pipeline(<<>>)

NoPreds ==
    [j \in {} |-> NoPrediction]

\* model = compose.Pipeline(...), or the statements that assemble it
BuildModel ==
    /\ nb \in PipelineCells /\ pc = "build"
    /\ model' = CellModel(nb)
    /\ pc' = IF nb \in PvsCells THEN "pvs" ELSE "for"
    /\ UNCHANGED <<X_y, nb, i, x, k, st, ref, y_pred, log, metric, PvsVars>>
    /\ UNCHANGED <<call, ScriptVars, WrapVars>>

\* for x, y in datasets.Restaurants(): the next observation, or print(metric)
LoopFor ==
    /\ nb = "loop" /\ pc = "for"
    /\ IF i < Len(X_y)
       THEN /\ i' = i + 1
            /\ x' = X_y[i + 1].x
            /\ pc' = LoopBody[1]
            /\ log' = Append(log, Event("read", i + 1))
       ELSE /\ pc' = "done"
            /\ UNCHANGED <<i, x, log>>
    /\ UNCHANGED <<X_y, nb, k, model, st, ref, y_pred, metric, PvsVars>>
    /\ UNCHANGED <<call, ScriptVars, WrapVars>>

\* y_pred = model.predict_one(x)
LoopPredict ==
    /\ nb = "loop" /\ pc = "predict_one"
    /\ y_pred' = PredictOne(model, st, x).y_pred
    /\ st' = PredictOne(model, st, x).st
    /\ x' = InPlace(model, x)
    /\ ref' = [st |-> PredictOne(ModelNamed, ref.st, x).st,
               y_pred |-> PredictOne(ModelNamed, ref.st, x).y_pred]
    /\ log' = Append(log, Event("predict_one", i))
    /\ pc' = NextOf(LoopBody, pc).pc
    /\ UNCHANGED <<X_y, nb, i, k, model, metric, PvsVars>>
    /\ UNCHANGED <<call, ScriptVars, WrapVars>>

\* model.fit_one(x, y)
LoopFit ==
    /\ nb = "loop" /\ pc = "fit_one"
    /\ st' = FitOne(model, st, x, i)
    /\ x' = InPlace(model, x)
    /\ ref' = [ref EXCEPT !.st = FitOne(ModelNamed, @, x, i)]
    /\ log' = Append(log, Event("fit_one", i))
    /\ pc' = NextOf(LoopBody, pc).pc
    /\ UNCHANGED <<X_y, nb, i, k, model, y_pred, metric, PvsVars>>
    /\ UNCHANGED <<call, ScriptVars, WrapVars>>

\* metric.update(y, y_pred)
LoopMetric ==
    /\ nb = "loop" /\ pc = "metric_update"
    /\ metric' = Append(metric, [i |-> i, y_pred |-> y_pred])
    /\ pc' = NextOf(LoopBody, pc).pc
    /\ UNCHANGED <<X_y, nb, i, x, k, model, st, ref, y_pred, log, PvsVars>>
    /\ UNCHANGED <<call, ScriptVars, WrapVars>>

(***************************************************************************)
(* model_selection.progressive_val_score without a delay, the function     *)
(* that replaces the pipeline loop: the out-of-fold prediction, then the   *)
(* update of the metric and of the model.                                  *)
(***************************************************************************)
\* print_every of the call; 0 stands for the default, which never prints
print_every_20000(cell) ==
    20000

\* print_every of the evaluation of a notebook; 0 where none is given
print_every(cell) ==
    CASE cell = "imbalanced" -> 15000
      [] cell = "example" -> 30000
      [] cell = "bikes" -> 20000
      [] OTHER -> 0

\* the progress lines after one more answer
PrintedAfter(lines, n, every) ==
    IF every > 0 /\ n % every = 0 THEN Append(lines, ToString(n)) ELSE lines

\* the next observation of the stream, or return metric
PvsNext ==
    /\ nb \in PvsCells /\ pc = "pvs"
    /\ IF i < Len(X_y)
       THEN /\ i' = i + 1
            /\ x' = X_y[i + 1].x
            /\ pc' = "question"
            /\ log' = Append(log, Event("read", i + 1))
       ELSE /\ pc' = "done"
            /\ UNCHANGED <<i, x, log>>
    /\ UNCHANGED <<X_y, nb, k, model, st, ref, y_pred, metric, PvsVars>>
    /\ UNCHANGED <<call, ScriptVars, WrapVars>>

\* the question: preds[i] = model.predict_one(x)
PvsQuestion ==
    /\ nb \in PvsCells /\ pc = "question"
    /\ preds' = Put(preds, i, PredictOne(model, st, x).y_pred)
    /\ st' = PredictOne(model, st, x).st
    /\ ref' = [st |-> PredictOne(ModelNamed, ref.st, x).st,
               y_pred |-> PredictOne(ModelNamed, ref.st, x).y_pred]
    /\ log' = Append(log, Event("predict_one", i))
    /\ pc' = "answer"
    /\ UNCHANGED <<X_y, nb, i, x, k, model, y_pred, metric, mementos,
                   n_total_answers, printed>>
    /\ UNCHANGED <<call, ScriptVars, WrapVars>>

\* the answer: y_pred = preds.pop(i); metric.update; model.fit_one(x, y); count; print
PvsAnswer ==
    /\ nb \in PvsCells /\ pc = "answer"
    /\ y_pred' = preds[i]
    /\ preds' = Without(preds, i)
    /\ metric' = Append(metric, [i |-> i, y_pred |-> preds[i]])
    /\ st' = FitOne(model, st, x, i)
    /\ ref' = [ref EXCEPT !.st = FitOne(ModelNamed, @, x, i)]
    /\ log' = Append(log, Event("fit_one", i))
    /\ n_total_answers' = n_total_answers + 1
    /\ printed' = PrintedAfter(printed, n_total_answers + 1, print_every(nb))
    /\ pc' = "pvs"
    /\ UNCHANGED <<X_y, nb, i, x, k, model, mementos>>
    /\ UNCHANGED <<call, ScriptVars, WrapVars>>

\* model.keys(): the names of the steps, in the order of the steps
keys(m) ==
    [n \in DOMAIN m.parts |-> m.parts[n].name]

\* for name in model.keys(): print(name), run on the pipeline built without names
PrintKeys ==
    /\ nb = "unnamed" /\ pc = "done"
    /\ printed' = printed \o keys(model)
    /\ pc' = "end"
    /\ UNCHANGED <<X_y, nb, i, x, k, model, st, ref, y_pred, log, metric,
                   mementos, preds, n_total_answers>>
    /\ UNCHANGED <<call, ScriptVars, WrapVars>>

(***************************************************************************)
(* SpecLoop: one cell of the pipelines notebook run on one stream.         *)
(***************************************************************************)
InitLoop ==
    /\ nb \in {"procedural"} \cup PipelineCells
    /\ pc = IF nb = "procedural" THEN "for" ELSE "build"
    /\ X_y \in RestaurantsStreams
    /\ i = 0
    /\ x = EmptyDict
    /\ k = 1
    /\ model = NoModel
    /\ st = Unfitted
    /\ ref = NoRef
    /\ y_pred = NoPrediction
    /\ log = <<>>
    /\ metric = <<>>
    /\ mementos = <<>>
    /\ preds = NoPreds
    /\ n_total_answers = 0
    /\ printed = <<>>
    /\ call = NoCall
    /\ Unused

NextLoop ==
    \/ ProcFor \/ ProcDateFeatures \/ ProcMeanTransform \/ ProcMeanFit
    \/ ProcPop \/ ProcScale \/ ProcPredict \/ ProcFit \/ ProcMetric
    \/ BuildModel \/ LoopFor \/ LoopPredict \/ LoopFit \/ LoopMetric
    \/ PvsNext \/ PvsQuestion \/ PvsAnswer \/ PrintKeys

SpecLoop ==
    InitLoop /\ [][NextLoop]_vars

(***************************************************************************)
(* The pipelines notebook: properties.                                     *)
(***************************************************************************)
\* an estimator without the names of its steps
RECURSIVE Steps(_)
Steps(e) ==
    [kind |-> e.kind, keys |-> e.keys, how |-> e.how,
     parts |-> [n \in DOMAIN e.parts |-> Steps(e.parts[n].est)]]

\* the operations of a strictly sequential run: read, predict, fit, one observation after the other
SequentialOp(n) ==
    Event(<<"read", "predict_one", "fit_one">>[((n - 1) % 3) + 1], ((n - 1) \div 3) + 1)

\* C1: without a delay, in the pipeline loop and in progressive_val_score, the
\* operations on the model are, in this order and one at a time: read
\* observation 1, predict_one(x_1), fit_one(x_1, y_1), read observation 2,
\* predict_one(x_2), fit_one(x_2, y_2), and so on; nothing else happens between.
C1_Sequential ==
    nb \in PipelineCells => \A n \in DOMAIN log : log[n] = SequentialOp(n)

\* the pipeline loop has run over two observations
C1_Witness ==
    nb = "loop" /\ pc = "done" /\ Len(log) = 6

\* C4: every prediction handed to metric.update(y_i, y_pred), in the procedural
\* loop and in the pipeline loop, was computed from targets of earlier
\* observations only, and so were the features of the observation at hand.
C4_OutOfFold ==
    nb \in {"procedural", "loop"} =>
        /\ \A n \in DOMAIN metric : metric[n].y_pred.deps \subseteq 1..(metric[n].i - 1)
        /\ \A key \in DOMAIN x : x[key].deps \subseteq 1..(i - 1)

\* the second prediction of the procedural loop rests on the first target
C4_Witness ==
    /\ nb = "procedural" /\ Len(metric) = 2
    /\ metric[2].y_pred.deps = {1}
    /\ \E key \in DOMAIN x : x[key].deps = {1}

\* C5 (as claimed): at every observation the linear regression of the
\* procedural loop is given the same set of feature keys as the linear
\* regression of the declarative pipeline.
C5_SameFeatureKeys ==
    (nb = "procedural" /\ pc = "fit_one") => y_pred.keys = ref.y_pred.keys

\* C6: each of the five ways of building the pipeline gives the same four
\* steps (the union of the same four extractors in the same order, Discard,
\* StandardScaler, LinearRegression), and under progressive validation every
\* prediction and every fitted state is that of the pipeline with named steps.
C6_SameModel ==
    (nb \in PvsCells /\ pc # "build") =>
        /\ Steps(model) = Steps(ModelNamed)
        /\ [n \in DOMAIN model.parts[1].est.parts |-> Str(model.parts[1].est.parts[n].est)]
             = <<"get_date_features", "target_rolling_rollingmean_7_by_store_id",
                 "target_rolling_rollingmean_14_by_store_id",
                 "target_rolling_rollingmean_21_by_store_id">>
        /\ st = ref.st
        /\ pc = "answer" => preds[i] = ref.y_pred

\* the pipeline built from a plain function has been evaluated on two observations
C6_Witness ==
    nb = "func" /\ pc = "done" /\ Len(metric) = 2 /\ metric[2].y_pred.deps = {1}

\* C7: the keys of a pipeline are one name per step, none empty, no two
\* equal, in the order of the steps (union, Discard, StandardScaler,
\* LinearRegression); built without names, the names printed are the
\* inferred ones.
C7_OrderedKeys ==
    (nb \in PipelineCells /\ pc # "build") =>
        /\ Len(keys(model)) = 4
        /\ \A n \in 1..4 : keys(model)[n] # ""
        /\ \A n, m \in 1..4 : keys(model)[n] = keys(model)[m] => n = m
        /\ [n \in 1..4 |-> model.parts[n].est.kind]
             = <<"TransformerUnion", "Discard", "StandardScaler", "LinearRegression">>
        /\ (nb = "unnamed" /\ pc = "end") =>
              printed = <<"get_date_features + target_rolling_rollingmean_7_by_store_id + target_rolling_rollingmean_14_by_store_id + target_rolling_rollingmean_21_by_store_id",
                          "~('store_id', 'date', 'genre_name', 'area_name', 'latitude', 'longitude')",
                          "StandardScaler",
                          "LinearRegression">>

\* the names of the pipeline built without names have been printed
C7_Witness ==
    nb = "unnamed" /\ pc = "end" /\ Len(printed) = 4

(***************************************************************************)
(* "Example usage" and "Bike-sharing forecasting": the model built step by *)
(* step and evaluated with delayed answers.                                *)
(***************************************************************************)
numeric_features ==
    <<"clouds", "humidity", "pressure", "temperature", "wind">>

\* feature_extraction.TargetAgg(by=['station', 'hour'], how=stats.Mean())
HourlyMean ==
    TargetAgg(<<"station", "hour">>, Mean)

\* feature_extraction.TargetAgg(by='station', how=stats.EWMean(0.5))
StationEwm ==
    TargetAgg(<<"station">>, EWMean05)

\* the same statements, the scaler piped in before the second aggregate is added
ExampleStatementsScalerEarly ==
    <<"select", "add_hourly_mean", "or_scaler", "add_ewm", "or_lin_reg">>

\* the statements of "Example usage" that assemble the model, in order
ExampleStatements ==
    <<"select", "add_hourly_mean", "add_ewm", "or_scaler", "or_lin_reg">>

\* the model after one more statement of "Example usage"
ExampleStatement(label, m) ==
    CASE label = "select" -> Select(numeric_features)
      [] label = "add_hourly_mean" ->
            With(Or(Function("add_hour"), HourlyMean), LAMBDA hourly : Add(m, hourly))
      [] label = "add_ewm" -> Add(m, StationEwm)
      [] label = "or_scaler" -> Or(m, StandardScaler)
      [] label = "or_lin_reg" -> Or(m, LinearRegression)
      [] OTHER -> m

\* the tutorial's model assembled without its Select
ModelBikesWithoutSelect ==
    LET features == Or(Function("get_hour"), Add(HourlyMean, StationEwm))
    IN  Or(Or(features, StandardScaler), LinearRegression)

\* the model of the delayed evaluation of the bike-sharing tutorial: | binds
\* looser than +, so get_hour is piped into the union of the two aggregates
ModelBikes ==
    LET selected == Select(numeric_features)
        features == Add(selected, Or(Function("get_hour"), Add(HourlyMean, StationEwm)))
    IN  Or(Or(features, StandardScaler), LinearRegression)

\* the model of the tutorial's last cell up to its scaler, the two aggregates
\* added as two branches of the union; a linear regression stands for the
\* HedgeRegressor that follows
ModelSeparate ==
    LET selected == Select(numeric_features)
        hourly == Add(selected, Or(Function("get_hour"), HourlyMean))
        features == Add(hourly, StationEwm)
    IN  Or(Or(features, StandardScaler), LinearRegression)

\* X_y.take(10)
TakeN == 10

\* dt.timedelta(minutes=30), in slots of ten minutes
ThirtyMinutes == 3

\* an evaluation called without moment and delay: the answer follows its question
delay_omitted(cell) ==
    0

\* every evaluation called with the delay of the notebooks
delay_thirty(cell) ==
    ThirtyMinutes

\* moment='moment', delay=dt.timedelta(minutes=30): the delay the evaluation of
\* a notebook is called with; the evaluation without delay is called with
\* delay=dt.timedelta(0)
delay(cell) ==
    IF cell = "no_delay" THEN 0 ELSE ThirtyMinutes

\* one observation of datasets.Bikes(): its eight keys
BikesX(station, moment) ==
    [key \in {"moment", "station", "clouds", "description", "humidity",
              "pressure", "temperature", "wind"} |->
        CASE key = "station" -> Val(station)
          [] key = "moment" -> Val(moment)
          [] OTHER -> Val(0)]

Stations ==
    {1, 2}

\* the number of bikes of an observation: it steers nothing, one value stands for all
BikeCounts ==
    {2}

\* the time between two observations, in slots of ten minutes
Gaps ==
    {1, 3}

\* the streams explored: up to MaxBikes observations, moments never decreasing
RECURSIVE BikesFrom(_, _)
BikesFrom(moment, n) ==
    IF n = 0 THEN {<<>>}
    ELSE {<<[x |-> BikesX(s, moment + g), y |-> t]>> \o rest :
            s \in Stations, g \in Gaps, t \in BikeCounts,
            rest \in BikesFrom(moment, n - 1)}

RECURSIVE Shifted(_, _)
\* a stream whose gaps are counted from the observation before
Shifted(stream, base) ==
    IF stream = <<>> THEN <<>>
    ELSE LET m == base + Head(stream).x["moment"].raw
         IN  <<[Head(stream) EXCEPT !.x["moment"] = Val(m)]>> \o Shifted(Tail(stream), m)

BikesStreams ==
    {Shifted(s, 4) : s \in UNION {BikesFrom(0, n) : n \in 1..MaxBikes}}

\* the time between two observations of the streams with ties: two stations
\* may be observed at the same moment
TiedGaps ==
    {0, 1}

RECURSIVE TiedFrom(_, _)
TiedFrom(moment, n) ==
    IF n = 0 THEN {<<>>}
    ELSE {<<[x |-> BikesX(s, moment + g), y |-> t]>> \o rest :
            s \in Stations, g \in TiedGaps, t \in BikeCounts,
            rest \in TiedFrom(moment, n - 1)}

\* streams of up to MaxBikes observations whose moments never decrease and may
\* be equal
TiedStreams ==
    {Shifted(s, 4) : s \in UNION {TiedFrom(0, n) : n \in 1..MaxBikes}}

Moment(j) ==
    X_y[j].x["moment"].raw

\* variables the construction of a model leaves alone
RunVars ==
    <<st, ref, y_pred, log, metric, mementos, preds, n_total_answers, printed>>

\* x, y = next(iter(X_y)), then one statement after the other: model = Select(...),
\* two model += ..., two model |= ...
ExampleBuild ==
    /\ nb = "example" /\ pc \in Range(ExampleStatements)
    /\ model' = ExampleStatement(pc, model)
    /\ x' = X_y[1].x
    /\ pc' = IF IndexOf(ExampleStatements, pc) = Len(ExampleStatements)
             THEN "first_predict"
             ELSE ExampleStatements[IndexOf(ExampleStatements, pc) + 1]
    /\ UNCHANGED <<X_y, nb, i, k, RunVars>>
    /\ UNCHANGED <<call, ScriptVars, WrapVars>>

\* model.predict_one(x), x being the first observation
ExampleFirstPredict ==
    /\ nb = "example" /\ pc = "first_predict"
    /\ y_pred' = PredictOne(model, st, x).y_pred
    /\ st' = PredictOne(model, st, x).st
    /\ x' = InPlace(model, x)
    /\ log' = Append(log, Event("first.predict_one", 1))
    /\ pc' = "take"
    /\ UNCHANGED <<X_y, nb, i, k, model, ref, metric, PvsVars>>
    /\ UNCHANGED <<call, ScriptVars, WrapVars>>

\* for x, y in X_y.take(10): the next of the first ten observations, or the end of the loop
TakeFor ==
    /\ nb = "example" /\ pc = "take"
    /\ IF k <= TakeN /\ k <= Len(X_y)
       THEN /\ x' = X_y[k].x
            /\ pc' = "take.predict_one"
       ELSE /\ pc' = "debug_one"
            /\ UNCHANGED x
    /\ UNCHANGED <<X_y, nb, i, k, model, RunVars>>
    /\ UNCHANGED <<call, ScriptVars, WrapVars>>

\* print(model.predict_one(x))
TakePredict ==
    /\ nb = "example" /\ pc = "take.predict_one"
    /\ y_pred' = PredictOne(model, st, x).y_pred
    /\ st' = PredictOne(model, st, x).st
    /\ x' = InPlace(model, x)
    /\ log' = Append(log, Event("take.predict_one", k))
    /\ pc' = "take.fit_one"
    /\ UNCHANGED <<X_y, nb, i, k, model, ref, metric, PvsVars>>
    /\ UNCHANGED <<call, ScriptVars, WrapVars>>

\* model.fit_one(x, y)
TakeFit ==
    /\ nb = "example" /\ pc = "take.fit_one"
    /\ st' = FitOne(model, st, x, k)
    /\ log' = Append(log, Event("take.fit_one", k))
    /\ k' = k + 1
    /\ pc' = "take"
    /\ UNCHANGED <<X_y, nb, i, x, model, ref, y_pred, metric, PvsVars>>
    /\ UNCHANGED <<call, ScriptVars, WrapVars>>

\* model.debug_one(x): prints the steps, changes nothing; the evaluation follows
DebugOne ==
    /\ nb = "example" /\ pc = "debug_one"
    /\ pc' = "qa"
    /\ UNCHANGED <<X_y, nb, i, x, k, model, RunVars>>
    /\ UNCHANGED <<call, ScriptVars, WrapVars>>

\* the cell of the bike-sharing tutorial: the model, then the evaluation
BuildBikes ==
    /\ nb \in {"bikes", "no_delay"} /\ pc = "build"
    /\ model' = ModelBikes
    /\ pc' = "qa"
    /\ UNCHANGED <<X_y, nb, i, x, k, RunVars>>
    /\ UNCHANGED <<call, ScriptVars, WrapVars>>

(***************************************************************************)
(* model_selection.progressive_val_score with moment='moment' and a delay: *)
(* every observation is a question when it arrives and an answer once its  *)
(* true value is revealed.                                                 *)
(***************************************************************************)
Memento(j) ==
    [i |-> j, t_expire |-> Moment(j) + delay(nb)]

\* the evaluations followed: the one of Example usage, the one of the tutorial,
\* and the tutorial's called with a delay of zero
QaCells ==
    {"example", "bikes", "no_delay"}

\* the run kept beside the evaluation, after the question for observation i:
\* beside the tutorial's model, the model with the two aggregates as separate
\* branches; beside the evaluation without delay, the plain loop, which
\* predicts observation i and updates the model with it at once
RefQuestion ==
    CASE nb = "bikes" ->
            With(PredictOne(ModelSeparate, ref.st, x), LAMBDA r :
                 [st |-> r.st, y_pred |-> r.y_pred])
      [] nb = "no_delay" ->
            With(PredictOne(model, ref.st, x), LAMBDA r :
                 [st |-> FitOne(model, r.st, x, i), y_pred |-> r.y_pred])
      [] OTHER -> ref

\* the run kept beside the evaluation, after the answer of memento m
RefAnswer(m) ==
    IF nb = "bikes"
    THEN [ref EXCEPT !.st = FitOne(ModelSeparate, ref.st, X_y[m.i].x, m.i)]
    ELSE ref

\* an evaluation that returns at the end of the stream, the waiting answers dropped
QaNextWithoutFlush ==
    /\ nb \in QaCells /\ pc = "qa"
    /\ IF i < Len(X_y)
       THEN /\ i' = i + 1
            /\ x' = X_y[i + 1].x
            /\ pc' = "reveal"
            /\ log' = Append(log, Event("read", i + 1))
       ELSE /\ pc' = "done"
            /\ UNCHANGED <<i, x, log>>
    /\ UNCHANGED <<X_y, nb, k, model, st, ref, y_pred, metric, PvsVars>>
    /\ UNCHANGED <<call, ScriptVars, WrapVars>>

\* the next observation of the stream; at its end, the answers still waiting
QaNext ==
    /\ nb \in QaCells /\ pc = "qa"
    /\ IF i < Len(X_y)
       THEN /\ i' = i + 1
            /\ x' = X_y[i + 1].x
            /\ pc' = "reveal"
            /\ log' = Append(log, Event("read", i + 1))
       ELSE /\ pc' = "flush"
            /\ UNCHANGED <<i, x, log>>
    /\ UNCHANGED <<X_y, nb, k, model, st, ref, y_pred, metric, PvsVars>>
    /\ UNCHANGED <<call, ScriptVars, WrapVars>>

\* an answer: y_pred = preds.pop(i); metric.update(y, y_pred); model.fit_one(x, y);
\* one more answer counted, a progress line every print_every answers
Answer(m) ==
    /\ y_pred' = preds[m.i]
    /\ preds' = Without(preds, m.i)
    /\ metric' = Append(metric, [i |-> m.i, y_pred |-> preds[m.i]])
    /\ st' = FitOne(model, st, X_y[m.i].x, m.i)
    /\ log' = Append(log, Event("fit_one", m.i))
    /\ ref' = RefAnswer(m)
    /\ n_total_answers' = n_total_answers + 1
    /\ printed' = PrintedAfter(printed, n_total_answers + 1, print_every(nb))

\* the oldest waiting answer is revealed once the stream has reached its time
QaReveal ==
    /\ nb \in QaCells /\ pc = "reveal"
    /\ mementos # <<>>
    /\ Head(mementos).t_expire <= Moment(i)
    /\ Answer(Head(mementos))
    /\ mementos' = Tail(mementos)
    /\ UNCHANGED <<X_y, nb, pc, i, x, k, model>>
    /\ UNCHANGED <<call, ScriptVars, WrapVars>>

\* no answer is due: the observation waits for its answer and the model predicts it
QaQuestion ==
    /\ nb \in QaCells /\ pc = "reveal"
    /\ IF mementos = <<>> THEN TRUE ELSE Head(mementos).t_expire > Moment(i)
    /\ mementos' = Append(mementos, Memento(i))
    /\ preds' = Put(preds, i, PredictOne(model, st, x).y_pred)
    /\ st' = PredictOne(model, st, x).st
    /\ log' = Append(log, Event("predict_one", i))
    /\ ref' = RefQuestion
    /\ pc' = "qa"
    /\ UNCHANGED <<X_y, nb, i, x, k, model, y_pred, metric,
                   n_total_answers, printed>>
    /\ UNCHANGED <<call, ScriptVars, WrapVars>>

\* the stream has ended: the answers still waiting are revealed, oldest first
QaFlush ==
    /\ nb \in QaCells /\ pc = "flush"
    /\ mementos # <<>>
    /\ Answer(Head(mementos))
    /\ mementos' = Tail(mementos)
    /\ UNCHANGED <<X_y, nb, pc, i, x, k, model>>
    /\ UNCHANGED <<call, ScriptVars, WrapVars>>

\* return metric
QaReturn ==
    /\ nb \in QaCells /\ pc = "flush"
    /\ mementos = <<>>
    /\ pc' = "done"
    /\ UNCHANGED <<X_y, nb, i, x, k, model, RunVars>>
    /\ UNCHANGED <<call, ScriptVars, WrapVars>>

(***************************************************************************)
(* SpecBike: one of the two notebooks run on one stream of bikes.          *)
(***************************************************************************)
InitBike ==
    /\ nb \in {"example", "bikes"}
    /\ pc = IF nb = "example" THEN ExampleStatements[1] ELSE "build"
    /\ X_y \in BikesStreams
    /\ i = 0
    /\ x = EmptyDict
    /\ k = 1
    /\ model = NoModel
    /\ st = Unfitted
    /\ ref = NoRef
    /\ y_pred = NoPrediction
    /\ log = <<>>
    /\ metric = <<>>
    /\ mementos = <<>>
    /\ preds = NoPreds
    /\ n_total_answers = 0
    /\ printed = <<>>
    /\ call = NoCall
    /\ Unused

NextBike ==
    \/ ExampleBuild \/ ExampleFirstPredict \/ TakeFor \/ TakePredict \/ TakeFit
    \/ DebugOne \/ BuildBikes
    \/ QaNext \/ QaReveal \/ QaQuestion \/ QaFlush \/ QaReturn

SpecBike ==
    InitBike /\ [][NextBike]_vars

\* the cell of a notebook runs to its end
SpecBikeFair ==
    InitBike /\ [][NextBike]_vars /\ WF_vars(NextBike)

\* where the log holds an operation on an observation
Positions(op, j) ==
    {p \in DOMAIN log : log[p] = Event(op, j)}

\* at position p of the log, the stream had reached an observation one delay
\* after observation j
Reached(p, j) ==
    \E q \in 1..(p - 1) :
        /\ log[q].op = "read"
        /\ Moment(log[q].i) >= Moment(j) + ThirtyMinutes

\* at position p of the log, every observation of the stream had been read
Ended(p) ==
    \A j \in 1..Len(X_y) : \E q \in 1..(p - 1) : log[q] = Event("read", j)

\* the prediction the evaluation made for observation j
Predicted(j) ==
    IF j \in DOMAIN preds THEN preds[j]
    ELSE metric[CHOOSE n \in DOMAIN metric : metric[n].i = j].y_pred

\* the observations the evaluation has predicted so far
Asked ==
    DOMAIN preds \cup {metric[n].i : n \in DOMAIN metric}

AtMostTwice ==
    \A j \in 1..Len(X_y) :
        /\ Cardinality(Positions("predict_one", j)) <= 1
        /\ Cardinality(Positions("fit_one", j)) <= 1
        /\ \A p \in Positions("fit_one", j) :
              \E q \in Positions("predict_one", j) : q < p

\* the evaluation has returned, every observation predicted once and updated once
ExactlyTwice ==
    /\ pc = "done"
    /\ \A j \in 1..Len(X_y) :
        /\ Cardinality(Positions("predict_one", j)) = 1
        /\ Cardinality(Positions("fit_one", j)) = 1

\* C3: in the delayed evaluation every observation is predicted at most once
\* and updated at most once, its prediction before its update, and in the end
\* every observation has been predicted once and updated once, the last ones
\* included, whose answers are due after the final observation.
C3_ShownTwice ==
    []AtMostTwice /\ <>ExactlyTwice

\* the evaluation has returned and the update with the last observation, due
\* after the end of the stream, was the last operation
C3_Witness ==
    /\ pc = "done" /\ Len(X_y) >= 2
    /\ n_total_answers = Len(X_y)
    /\ log[Len(log)] = Event("fit_one", Len(X_y))
    /\ Cardinality(Positions("predict_one", Len(X_y))) = 1

\* C8: once the five statements of "Example usage" have run, the model is one
\* Pipeline of three steps: a TransformerUnion of three branches (the Select,
\* the Pipeline of add_hour and the TargetAgg by station and hour, the
\* TargetAgg by station), a StandardScaler and a LinearRegression; no union
\* holds a union, and the outer pipeline holds no pipeline.
C8_NoNesting ==
    (nb = "example" /\ pc \notin Range(ExampleStatements)) =>
        /\ model.kind = "Pipeline"
        /\ [n \in DOMAIN model.parts |-> model.parts[n].est.kind]
             = <<"TransformerUnion", "StandardScaler", "LinearRegression">>
        /\ LET union == model.parts[1].est
           IN  /\ [n \in DOMAIN union.parts |-> union.parts[n].est.kind]
                    = <<"Select", "Pipeline", "TargetAgg">>
               /\ union.parts[1].est.keys = numeric_features
               /\ [n \in DOMAIN union.parts[2].est.parts |->
                      <<union.parts[2].est.parts[n].est.kind,
                        union.parts[2].est.parts[n].est.keys>>]
                    = << <<"FuncTransformer", <<"add_hour">> >>,
                         <<"TargetAgg", <<"station", "hour">> >> >>
               /\ union.parts[2].est.parts[2].est.how.stat = "Mean"
               /\ union.parts[3].est.keys = <<"station">>
               /\ union.parts[3].est.how.stat = "EWMean"

\* the last of the five statements has just run
C8_Witness ==
    nb = "example" /\ pc = "first_predict" /\ Len(model.parts) = 3

(***************************************************************************)
(* SpecProgress: the progress lines of progressive_val_score, over the     *)
(* evaluations of the notebooks and over short streams with any            *)
(* print_every.  Only the answers are counted; the notebooks' streams are  *)
(* followed Stride answers at a time.                                      *)
(***************************************************************************)
MaxN == 7
\* longest stream counted answer by answer

MaxEvery == 3
\* largest print_every tried on it

Stride == 1000
\* answers of a notebook's stream taken in one step

\* the number of observations of the stream a notebook evaluates on
n_observations(cell) ==
    CASE cell = "imbalanced" -> 284807
      [] cell = "example" -> 182470
      [] cell = "bikes" -> 182470
      [] OTHER -> 0

ProgressCells ==
    {"imbalanced", "example", "bikes"}

\* the evaluations followed: those of the notebooks, and any short one
Calls ==
    {[nb |-> cell,
      call |-> [n_observations |-> n_observations(cell), print_every |-> print_every(cell)]] :
        cell \in ProgressCells}
    \cup {[nb |-> "any", call |-> [n_observations |-> n, print_every |-> every]] :
            n \in 0..MaxN, every \in 1..MaxEvery}

Min(a, b) ==
    IF a < b THEN a ELSE b

RECURSIVE AnswersAfter(_, _, _, _)
\* the progress lines after `count` more answers, one answer after the other:
\* the first half of them, then the rest
AnswersAfter(lines, n, count, every) ==
    IF count = 0 THEN lines
    ELSE IF count = 1 THEN PrintedAfter(lines, n + 1, every)
    ELSE With(AnswersAfter(lines, n, count \div 2, every), LAMBDA half :
              AnswersAfter(half, n + count \div 2, count - count \div 2, every))

\* one observation: its answer counted, a line printed every print_every answers
ProgressAnswer ==
    /\ nb = "any" /\ pc = "pvs"
    /\ i < call.n_observations
    /\ i' = i + 1
    /\ n_total_answers' = n_total_answers + 1
    /\ printed' = PrintedAfter(printed, n_total_answers + 1, call.print_every)
    /\ UNCHANGED <<nb, pc, X_y, x, k, model, st, ref, y_pred, log, metric,
                   mementos, preds, call, ScriptVars, WrapVars>>

\* the next Stride observations of a notebook's stream, or those that are left
ProgressStride ==
    /\ nb \in ProgressCells /\ pc = "pvs"
    /\ i < call.n_observations
    /\ i' = i + Min(Stride, call.n_observations - i)
    /\ n_total_answers' = n_total_answers + Min(Stride, call.n_observations - i)
    /\ printed' = AnswersAfter(printed, n_total_answers,
                               Min(Stride, call.n_observations - i), call.print_every)
    /\ UNCHANGED <<nb, pc, X_y, x, k, model, st, ref, y_pred, log, metric,
                   mementos, preds, call, ScriptVars, WrapVars>>

\* return metric, once the stream is exhausted
ProgressReturn ==
    /\ nb \in ProgressCells \cup {"any"} /\ pc = "pvs"
    /\ i = call.n_observations
    /\ pc' = "done"
    /\ UNCHANGED <<nb, X_y, i, x, k, model, st, ref, y_pred, log, metric,
                   mementos, preds, n_total_answers, printed, call,
                   ScriptVars, WrapVars>>

InitProgress ==
    /\ \E c \in Calls : nb = c.nb /\ call = c.call
    /\ pc = "pvs"
    /\ X_y = <<>>
    /\ i = 0
    /\ x = EmptyDict
    /\ k = 1
    /\ model = NoModel
    /\ st = Unfitted
    /\ ref = NoRef
    /\ y_pred = NoPrediction
    /\ log = <<>>
    /\ metric = <<>>
    /\ mementos = <<>>
    /\ preds = NoPreds
    /\ n_total_answers = 0
    /\ printed = <<>>
    /\ Unused

NextProgress ==
    ProgressAnswer \/ ProgressStride \/ ProgressReturn

SpecProgress ==
    InitProgress /\ [][NextProgress]_vars

\* the progress lines of an evaluation that prints at every multiple of `every`
LinesEvery(every, n) ==
    [m \in 1..(n \div every) |-> ToString(m * every)]

\* C9 as stated: in "Example usage" a progress line has been printed for
\* every positive multiple of 20,000 the number of predictions has reached.
C9_Every20000 ==
    nb = "example" => printed = LinesEvery(20000, n_total_answers)

\* C10: the progress lines are those of the positive multiples of print_every
\* that the count of observations has reached, and no other; when the
\* evaluation returns every observation has been counted and floor(N / n) lines
\* were printed: 18 for the credit card stream, 9 for the bikes stream.
C10_ProgressLines ==
    /\ printed = LinesEvery(call.print_every, n_total_answers)
    /\ pc = "done" =>
          /\ n_total_answers = call.n_observations
          /\ Len(printed) = call.n_observations \div call.print_every
          /\ nb = "imbalanced" => Len(printed) = 18
          /\ nb = "bikes" => Len(printed) = 9

\* the evaluation of the credit card stream has returned, its last 14,807
\* observations without a line
C10_Witness ==
    /\ nb = "imbalanced" /\ pc = "done"
    /\ n_total_answers = 284807
    /\ printed[Len(printed)] = "270000"

(***************************************************************************)
(* The union of the bike model: what it hands to the StandardScaler.       *)
(***************************************************************************)
\* the seven features of the bike model
bike_features ==
    Range(numeric_features)
        \cup {"target_mean_by_station_and_hour", "target_ewm_0.5_by_station"}

\* C15: whenever the bike model is complete and x is an observation, the
\* union's output holds exactly the five selected keys and the two aggregates,
\* so that no prediction was ever computed from other keys; in "Example usage"
\* the Select branch outputs the five selected keys only and each aggregate
\* branch its one feature only.
C15_UnionOutput ==
    (/\ nb \in {"example", "bikes"}
     /\ pc \notin Range(ExampleStatements) \cup {"build"}
     /\ "station" \in DOMAIN x) =>
        /\ DOMAIN TransformOne(model.parts[1].est, st, x) = bike_features
        /\ y_pred.keys \in {{}, bike_features}
        /\ \A j \in DOMAIN preds : preds[j].keys = bike_features
        /\ nb = "example" =>
              LET union == model.parts[1].est
              IN  /\ DOMAIN TransformOne(union.parts[1].est, st, x)
                        = Range(numeric_features)
                  /\ DOMAIN TransformOne(union.parts[2].est, st, x)
                        = {"target_mean_by_station_and_hour"}
                  /\ DOMAIN TransformOne(union.parts[3].est, st, x)
                        = {"target_ewm_0.5_by_station"}

\* the model was fitted once, and the prediction made from the seven features
\* of the second observation rests on the first target
C15_Witness ==
    /\ nb = "example" /\ pc = "take.fit_one" /\ k = 2
    /\ DOMAIN x = DOMAIN BikesX(1, 0)
    /\ y_pred.keys = bike_features
    /\ y_pred.deps = {1}

(***************************************************************************)
(* The procedural loop: the keys popped and the keys scaled.               *)
(***************************************************************************)
\* pprint(x) after the loop: the keys of the last scaled x
scaled_keys ==
    {"is_holiday", "is_weekend", "weekday",
     "target_rolling_rollingmean_7_by_store_id",
     "target_rolling_rollingmean_14_by_store_id",
     "target_rolling_rollingmean_21_by_store_id"}

\* C16: in the procedural loop no x.pop(key) raises KeyError, every key about
\* to be popped is in x, and the dict about to be scaled, like the dict that
\* was scaled, holds exactly is_holiday, weekday, is_weekend and the three
\* rolling means.
C16_PopNeverRaises ==
    nb = "procedural" =>
        /\ pc # "KeyError"
        /\ pc = "pop" => non_features[k] \in DOMAIN x
        /\ pc \in {"scale", "predict_one", "fit_one", "metric_update"} =>
              DOMAIN x = scaled_keys

\* the second observation is about to be scaled, its six pops done, one of
\* its rolling means computed from the first target
C16_Witness ==
    /\ nb = "procedural" /\ pc = "scale" /\ i = 2
    /\ DOMAIN x = scaled_keys
    /\ x["target_rolling_rollingmean_7_by_store_id"].deps = {1}

(***************************************************************************)
(* The model an evaluation starts from.                                    *)
(***************************************************************************)
\* C17: when progressive_val_score is called (no observation read yet) the
\* model is as constructed, no fit_one or predict_one having been applied to
\* it, and the first prediction scored rests on no target.
C17_FreshModel ==
    /\ (nb \in {"example", "bikes"} /\ pc = "qa" /\ i = 0) => st = Unfitted
    /\ (nb \in {"example", "bikes"} /\ 1 \in DOMAIN preds) => preds[1].deps = {}

(***************************************************************************)
(* The two ways of adding the aggregates in the bike-sharing tutorial.     *)
(***************************************************************************)
\* the answers given so far
Answered ==
    {log[n].i : n \in {m \in DOMAIN log : log[m].op = "fit_one"}}

\* the places of a feature's groups that hold observation j, one for each
\* update with it
UpdatesWith(s, feature, j) ==
    {gn \in (DOMAIN s.agg) \X (1..Len(X_y)) :
        /\ gn[1][1] = feature
        /\ gn[2] \in DOMAIN s.agg[gn[1]]
        /\ s.agg[gn[1]][gn[2]] = j}

\* C19: in the tutorial's model get_hour is piped into a union of the two
\* aggregates, which is the second part of a union whose first part is the
\* Select; run beside the model with the two aggregates as separate branches
\* on the same stream, it leaves the same fitted state and every prediction is
\* computed from the same seven keys; under either model each aggregate holds
\* every answered observation once and no other.
C19_SameFeatures ==
    nb = "bikes" /\ pc # "build" =>
        /\ LET union == model.parts[1].est
           IN  /\ union.kind = "TransformerUnion" /\ Len(union.parts) = 2
               /\ union.parts[1].est = Select(numeric_features)
               /\ union.parts[2].est.kind = "Pipeline"
               /\ union.parts[2].est.parts[1].est = FuncTransformer(Function("get_hour"))
               /\ Steps(union.parts[2].est.parts[2].est)
                     = Steps(TransformerUnion(<<Unnamed(HourlyMean), Unnamed(StationEwm)>>))
        /\ Len(ModelSeparate.parts[1].est.parts) = 3
        /\ ref.st = st
        /\ \A j \in DOMAIN preds : preds[j].keys = bike_features
        /\ i >= 1 =>
              /\ PredictOne(ModelSeparate, ref.st, x).features
                    = PredictOne(model, st, x).features
              /\ DOMAIN PredictOne(ModelSeparate, ref.st, x).features = bike_features
        /\ \A feature \in {feature_name(HourlyMean), feature_name(StationEwm)} :
              \A j \in 1..Len(X_y) :
                  /\ Cardinality(UpdatesWith(st, feature, j))
                        = IF j \in Answered THEN 1 ELSE 0
                  /\ Cardinality(UpdatesWith(ref.st, feature, j))
                        = IF j \in Answered THEN 1 ELSE 0

\* the evaluation has returned after three answers, the third prediction made
\* from the seven keys once the first target was revealed
C19_Witness ==
    /\ nb = "bikes" /\ pc = "done"
    /\ Answered = {1, 2, 3}
    /\ ref.st = st
    /\ \E n \in DOMAIN metric :
          metric[n].i = 3 /\ metric[n].y_pred.deps = {1}
                          /\ metric[n].y_pred.keys = bike_features

(***************************************************************************)
(* SpecZero: the tutorial's evaluation called with a delay of zero, beside *)
(* the plain loop.                                                         *)
(***************************************************************************)
InitZero ==
    /\ nb = "no_delay"
    /\ pc = "build"
    /\ X_y \in TiedStreams
    /\ i = 0
    /\ x = EmptyDict
    /\ k = 1
    /\ model = NoModel
    /\ st = Unfitted
    /\ ref = NoRef
    /\ y_pred = NoPrediction
    /\ log = <<>>
    /\ metric = <<>>
    /\ mementos = <<>>
    /\ preds = NoPreds
    /\ n_total_answers = 0
    /\ printed = <<>>
    /\ call = NoCall
    /\ Unused

NextZero ==
    \/ BuildBikes
    \/ QaNext \/ QaReveal \/ QaQuestion \/ QaFlush \/ QaReturn

SpecZero ==
    InitZero /\ [][NextZero]_vars

\* the predictions and updates made so far, in order
Trace ==
    SelectSeq(log, LAMBDA e : e.op \in {"predict_one", "fit_one"})

\* C20: with a delay of zero the predictions and updates come in the order of
\* plain progressive validation (predict 1, update 1, predict 2, update 2,
\* ...), at most one prediction waits to be scored, it is the one the plain
\* loop made for that observation, and whenever no prediction waits the fitted
\* model and the last prediction scored are the plain loop's.
C20_DelayZero ==
    nb = "no_delay" =>
        /\ \A n \in DOMAIN Trace :
              Trace[n] = IF n % 2 = 1 THEN Event("predict_one", (n + 1) \div 2)
                         ELSE Event("fit_one", n \div 2)
        /\ Cardinality(DOMAIN preds) <= 1
        /\ \A j \in DOMAIN preds : j \in {i - 1, i} /\ preds[j] = ref.y_pred
        /\ DOMAIN preds = {} => st = ref.st
        /\ Len(metric) > 0 /\ DOMAIN preds = {} => metric[Len(metric)].y_pred = ref.y_pred

\* the evaluation has returned from a stream of three observations, the first
\* two at the same moment; the third prediction rests on the first two targets
C20_Witness ==
    /\ nb = "no_delay" /\ pc = "done"
    /\ Len(X_y) = 3 /\ Moment(1) = Moment(2)
    /\ Len(metric) = 3
    /\ metric[3].y_pred.deps = {1, 2}
    /\ st = ref.st

(***************************************************************************)
(* SpecCells: each notebook as one script, its statements run from top to  *)
(* bottom in one namespace.  A statement is kept as its first line, what   *)
(* it does (op), the names it binds (defs) and the names it reads (uses).  *)
(***************************************************************************)
S(line, op, defs, uses) ==
    [line |-> line, op |-> op, defs |-> defs, uses |-> uses]

\* docs/notebooks/bike-sharing-forecasting.ipynb
ScriptBikes ==
    <<
        S(39, "import", {"pprint"}, {}),
        S(40, "import", {"datasets"}, {}),
        S(42, "dataset", {"X_y"}, {"datasets"}),
        S(44, "peek", {"x", "y"}, {"X_y", "pprint"}),
        S(89, "import", {"compose"}, {}),
        S(90, "import", {"linear_model"}, {}),
        S(91, "import", {"metrics"}, {}),
        S(92, "import", {"model_selection"}, {}),
        S(93, "import", {"preprocessing"}, {}),
        S(95, "dataset", {"X_y"}, {"datasets"}),
        S(97, "model", {"model"}, {"compose"}),
        S(98, "augment", {"model"}, {"model", "preprocessing"}),
        S(99, "augment", {"model"}, {"model", "linear_model"}),
        S(101, "assign", {"metric"}, {"metrics"}),
        S(103, "evaluate", {}, {"model_selection", "X_y", "model", "metric"}),
        S(145, "import", {"feature_extraction"}, {}),
        S(146, "import", {"stats"}, {}),
        S(148, "iter", {"X_y"}, {"datasets"}),
        S(150, "def", {"get_hour"}, {}),
        S(154, "model", {"model"}, {"compose"}),
        S(155, "augment", {"model"}, {"model", "get_hour", "feature_extraction", "stats"}),
        S(159, "augment", {"model"}, {"model", "preprocessing"}),
        S(160, "augment", {"model"}, {"model", "linear_model"}),
        S(162, "assign", {"metric"}, {"metrics"}),
        S(164, "evaluate", {}, {"model_selection", "X_y", "model", "metric"}),
        S(292, "use", {}, {"model"}),
        S(368, "import", {"itertools"}, {}),
        S(370, "iter", {"X_y"}, {"datasets"}),
        S(372, "model", {"model"}, {"compose"}),
        S(373, "augment", {"model"}, {"model", "get_hour", "feature_extraction", "stats"}),
        S(377, "augment", {"model"}, {"model", "preprocessing"}),
        S(378, "augment", {"model"}, {"model", "linear_model"}),
        S(380, "islice", {"x", "y", "y_pred"}, {"itertools", "X_y", "model"}),
        S(384, "next", {"x", "y"}, {"X_y"}),
        S(385, "use", {}, {"model", "x"}),
        S(431, "dataset", {"X_y"}, {"datasets"}),
        S(433, "model", {"model"}, {"compose"}),
        S(434, "augment", {"model"}, {"model", "get_hour", "feature_extraction", "stats"}),
        S(439, "augment", {"model"}, {"model", "preprocessing"}),
        S(440, "augment", {"model"}, {"model", "linear_model"}),
        S(442, "assign", {"metric"}, {"metrics"}),
        S(444, "evaluate", {}, {"model_selection", "X_y", "model", "metric"}),
        S(486, "import", {"dt"}, {}),
        S(488, "model", {"model"}, {"compose"}),
        S(489, "augment", {"model"}, {"model", "get_hour", "feature_extraction", "stats"}),
        S(494, "augment", {"model"}, {"model", "preprocessing"}),
        S(495, "augment", {"model"}, {"model", "linear_model"}),
        S(497, "evaluate_inline", {}, {"model_selection", "datasets", "model", "metrics", "dt"}),
        S(548, "import", {"ensemble"}, {}),
        S(549, "import", {"optim"}, {}),
        S(551, "model", {"model"}, {"compose"}),
        S(552, "augment", {"model"}, {"model", "get_hour", "feature_extraction", "stats"}),
        S(556, "augment", {"model"}, {"model", "feature_extraction", "stats"}),
        S(557, "augment", {"model"}, {"model", "preprocessing"}),
        S(558, "augment", {"model"}, {"model", "ensemble", "linear_model", "optim"}),
        S(564, "evaluate_inline", {}, {"model_selection", "datasets", "model", "metrics", "dt"})
    >>

\* "Example usage"
ScriptExample ==
    <<
        S(41, "import", {"datasets"}, {}),
        S(43, "dataset", {"X_y"}, {"datasets"}),
        S(44, "peek", {"x", "y"}, {"X_y"}),
        S(45, "use", {}, {"x"}),
        S(62, "use", {}, {"y"}),
        S(80, "import", {"compose"}, {}),
        S(82, "model", {"model"}, {"compose"}),
        S(98, "import", {"feature_extraction"}, {}),
        S(99, "import", {"stats"}, {}),
        S(101, "def", {"add_hour"}, {}),
        S(105, "augment", {"model"}, {"model", "add_hour", "feature_extraction", "stats"}),
        S(124, "augment", {"model"}, {"model", "feature_extraction", "stats"}),
        S(140, "import", {"linear_model"}, {}),
        S(141, "import", {"preprocessing"}, {}),
        S(143, "augment", {"model"}, {"model", "preprocessing"}),
        S(144, "augment", {"model"}, {"model", "linear_model"}),
        S(171, "use", {}, {"model", "x"}),
        S(197, "take", {"x", "y"}, {"X_y", "model"}),
        S(269, "use", {}, {"model"}),
        S(413, "use", {}, {"model"}),
        S(496, "use", {}, {"model", "x"}),
        S(535, "import", {"dt"}, {}),
        S(536, "import", {"metrics"}, {}),
        S(537, "import", {"model_selection"}, {}),
        S(539, "evaluate", {}, {"model_selection", "X_y", "model", "metrics", "dt"})
    >>

\* "The art of using pipelines"
ScriptPipelines ==
    <<
        S(616, "import", {"pprint"}, {}),
        S(617, "import", {"datasets"}, {}),
        S(619, "peek_inline", {"x", "y"}, {"datasets", "pprint"}),
        S(646, "import", {"feature_extraction"}, {}),
        S(647, "import", {"linear_model"}, {}),
        S(648, "import", {"metrics"}, {}),
        S(649, "import", {"preprocessing"}, {}),
        S(650, "import", {"stats"}, {}),
        S(653, "assign", {"means"}, {"feature_extraction", "stats"}),
        S(659, "assign", {"scaler"}, {"preprocessing"}),
        S(660, "assign", {"lin_reg"}, {"linear_model"}),
        S(661, "assign", {"metric"}, {"metrics"}),
        S(663, "loop_inline", {"x", "y", "mean", "key", "y_pred"}, {"datasets", "means", "scaler", "lin_reg", "metric"}),
        S(688, "use", {}, {"metric"}),
        S(717, "use", {}, {"pprint", "x"}),
        S(741, "import", {"compose"}, {}),
        S(744, "def", {"get_date_features"}, {}),
        S(749, "model", {"model"}, {"compose", "get_date_features", "feature_extraction", "stats", "preprocessing", "linear_model"}),
        S(761, "assign", {"metric"}, {"metrics"}),
        S(763, "fit_loop_inline", {"x", "y", "y_pred"}, {"datasets", "model", "metric"}),
        S(774, "use", {}, {"metric"}),
        S(801, "import", {"model_selection"}, {}),
        S(803, "model", {"model"}, {"compose", "get_date_features", "feature_extraction", "stats", "preprocessing", "linear_model"}),
        S(815, "evaluate_inline", {}, {"model_selection", "datasets", "model", "metrics"}),
        S(846, "model", {"model"}, {"compose", "get_date_features", "feature_extraction", "stats", "preprocessing", "linear_model"}),
        S(858, "evaluate_inline", {}, {"model_selection", "datasets", "model", "metrics"}),
        S(885, "use", {"name"}, {"model"}),
        S(915, "model", {"model"}, {"compose", "get_date_features", "feature_extraction", "stats", "preprocessing", "linear_model"}),
        S(926, "evaluate_inline", {}, {"model_selection", "datasets", "model", "metrics"}),
        S(953, "model", {"model"}, {"compose", "get_date_features", "feature_extraction", "stats"}),
        S(960, "assign", {"to_discard"}, {}),
        S(962, "augment", {"model"}, {"model", "compose", "to_discard", "preprocessing"}),
        S(964, "augment", {"model"}, {"model", "linear_model"}),
        S(966, "evaluate_inline", {}, {"model_selection", "datasets", "model", "metrics"}),
        S(993, "model", {"model"}, {"get_date_features"}),
        S(995, "augment", {"model", "n"}, {"model", "feature_extraction", "stats"}),
        S(998, "augment", {"model"}, {"model", "compose", "to_discard"}),
        S(999, "augment", {"model"}, {"model", "preprocessing"}),
        S(1000, "augment", {"model"}, {"model", "linear_model"}),
        S(1002, "evaluate_inline", {}, {"model_selection", "datasets", "model", "metrics"}),
        S(1166, "use", {}, {"model"})
    >>

\* "Working with imbalanced data"
ScriptImbalanced ==
    <<
        S(31, "import", {"collections"}, {}),
        S(32, "import", {"datasets"}, {}),
        S(34, "dataset", {"X_y"}, {"datasets"}),
        S(36, "count", {"counts"}, {"collections", "X_y"}),
        S(38, "use", {"c", "count"}, {"counts"}),
        S(76, "import", {"linear_model"}, {}),
        S(77, "import", {"metrics"}, {}),
        S(78, "import", {"model_selection"}, {}),
        S(79, "import", {"preprocessing"}, {}),
        S(82, "dataset", {"X_y"}, {"datasets"}),
        S(84, "model", {"model"}, {"preprocessing", "linear_model"}),
        S(89, "assign", {"metric"}, {"metrics"}),
        S(91, "evaluate", {}, {"model_selection", "X_y", "model", "metric"}),
        S(134, "import", {"optim"}, {}),
        S(136, "model", {"model"}, {"preprocessing", "linear_model", "optim"}),
        S(143, "assign", {"metric"}, {"metrics"}),
        S(145, "evaluate", {}, {"model_selection", "X_y", "model", "metric"}),
        S(183, "model", {"model"}, {"preprocessing", "linear_model", "optim"}),
        S(188, "assign", {"metric"}, {"metrics"}),
        S(190, "evaluate", {}, {"model_selection", "X_y", "model", "metric"}),
        S(233, "import", {"sampling"}, {}),
        S(235, "model", {"model"}, {"preprocessing", "sampling", "linear_model"}),
        S(244, "assign", {"metric"}, {"metrics"}),
        S(246, "evaluate", {}, {"model_selection", "X_y", "model", "metric"}),
        S(278, "use", {}, {"model"}),
        S(315, "model", {"model"}, {"preprocessing", "sampling", "linear_model"}),
        S(324, "assign", {"metric"}, {"metrics"}),
        S(326, "evaluate", {}, {"model_selection", "X_y", "model", "metric"}),
        S(364, "model", {"model"}, {"preprocessing", "sampling", "linear_model"}),
        S(374, "assign", {"metric"}, {"metrics"}),
        S(376, "evaluate", {}, {"model_selection", "X_y", "model", "metric"}),
        S(414, "model", {"model"}, {"preprocessing", "sampling", "linear_model", "optim"}),
        S(425, "assign", {"metric"}, {"metrics"}),
        S(427, "evaluate", {}, {"model_selection", "X_y", "model", "metric"})
    >>

Notebooks ==
    {"bikes", "example", "pipelines", "imbalanced"}

\* the statements of a notebook, in the order of its cells
ScriptAsWritten(notebook) ==
    CASE notebook = "bikes" -> ScriptBikes
      [] notebook = "example" -> ScriptExample
      [] notebook = "pipelines" -> ScriptPipelines
      [] notebook = "imbalanced" -> ScriptImbalanced
      [] OTHER -> <<>>

\* a notebook without the cells' def statements
ScriptWithoutDefs(notebook) ==
    SelectSeq(ScriptAsWritten(notebook), LAMBDA s : s.op # "def")

\* a notebook whose X_y is always the dataset itself, never iter(...) of it
ScriptOfDatasets(notebook) ==
    [n \in DOMAIN ScriptAsWritten(notebook) |->
        IF ScriptAsWritten(notebook)[n].op = "iter"
        THEN [ScriptAsWritten(notebook)[n] EXCEPT !.op = "dataset"]
        ELSE ScriptAsWritten(notebook)[n]]

\* a notebook that calls iter(...) once and never again
ScriptIterOnce(notebook) ==
    SelectSeq(ScriptAsWritten(notebook), LAMBDA s : s.op # "iter" \/ s.line < 200)

Script(notebook) ==
    ScriptAsWritten(notebook)

\* itertools.islice(X_y, 10000)
SliceN == 10000

\* the statement to run next
Stmt ==
    Script(nb)[stmt]

\* the number of observations of the stream of the notebook
N ==
    call.n_observations

\* the names a statement reads are bound; Python raises NameError otherwise
Bound ==
    Stmt.uses \subseteq names

Raise(error) ==
    /\ pc' = error
    /\ UNCHANGED <<stmt, names, it, trained, i, k, log>>

\* whether X_y is an iterator, consumed as it is read
OneShot ==
    it.kind = "iterator"

\* X_y after `count` more of its items were read by `user`
Consumed(count, user) ==
    IF OneShot
    THEN [it EXCEPT !.pos = @ + count, !.users = Append(@, user)]
    ELSE it

\* the observations the model was fitted on, one interval for each loop
FittedOn(j) ==
    \E n \in DOMAIN trained : trained[n].first <= j /\ j <= trained[n].last

\* variables the scripts leave alone
OtherVars ==
    <<nb, X_y, x, model, st, ref, y_pred, metric, mementos, preds,
      n_total_answers, printed, call, WrapVars>>

\* import ..., def ..., name = ..., model += ..., model |= ..., and statements
\* that only read names: model.draw(), model.debug_one(x), print(metric), pprint(x)
RunBind ==
    /\ pc = "run" /\ stmt \in DOMAIN Script(nb)
    /\ Stmt.op \in {"import", "def", "assign", "augment", "use"}
    /\ IF Bound
       THEN /\ names' = names \cup Stmt.defs
            /\ stmt' = stmt + 1
            /\ UNCHANGED <<pc, it, trained, i, k, log>>
       ELSE Raise("NameError")
    /\ UNCHANGED OtherVars

\* model = ...: a new estimator, fitted on nothing
RunModel ==
    /\ pc = "run" /\ stmt \in DOMAIN Script(nb)
    /\ Stmt.op = "model"
    /\ IF Bound
       THEN /\ names' = names \cup Stmt.defs
            /\ trained' = <<>>
            /\ stmt' = stmt + 1
            /\ UNCHANGED <<pc, it, i, k, log>>
       ELSE Raise("NameError")
    /\ UNCHANGED OtherVars

\* X_y = datasets.Bikes() / X_y = iter(datasets.Bikes())
RunStream ==
    /\ pc = "run" /\ stmt \in DOMAIN Script(nb)
    /\ Stmt.op \in {"dataset", "iter"}
    /\ IF Bound
       THEN /\ names' = names \cup Stmt.defs
            /\ it' = [kind |-> IF Stmt.op = "iter" THEN "iterator" ELSE "dataset",
                      pos |-> 0, users |-> <<>>]
            /\ stmt' = stmt + 1
            /\ UNCHANGED <<pc, trained, i, k, log>>
       ELSE Raise("NameError")
    /\ UNCHANGED OtherVars

\* for x, y in X_y: ...; break  /  x, y = next(iter(X_y))  /
\* for x, y in datasets.Restaurants(): ...; break: the first item of an iteration
RunPeek ==
    /\ pc = "run" /\ stmt \in DOMAIN Script(nb)
    /\ Stmt.op \in {"peek", "peek_inline"}
    /\ IF ~Bound THEN Raise("NameError")
       ELSE IF Stmt.op = "peek" /\ OneShot /\ it.pos >= N
       THEN /\ stmt' = stmt + 1
            /\ UNCHANGED <<pc, names, it, trained, i, k, log>>
       ELSE /\ names' = names \cup Stmt.defs
            /\ i' = IF Stmt.op = "peek" /\ OneShot THEN it.pos + 1 ELSE 1
            /\ it' = IF Stmt.op = "peek" THEN Consumed(1, "peek") ELSE it
            /\ stmt' = stmt + 1
            /\ UNCHANGED <<pc, trained, k, log>>
    /\ UNCHANGED OtherVars

\* for x, y in X_y.take(10): / for x, y in itertools.islice(X_y, 10000):
\* one pass of the loop, model.predict_one(x) then model.fit_one(x, y); an
\* iterator hands out its next item, a dataset is read from its first
RunLoop ==
    /\ pc = "run" /\ stmt \in DOMAIN Script(nb)
    /\ Stmt.op \in {"take", "islice"}
    /\ LET limit == IF Stmt.op = "take" THEN TakeN ELSE SliceN
           item == IF OneShot THEN it.pos + 1 ELSE k
       IN  IF ~Bound THEN Raise("NameError")
           ELSE IF Stmt.op = "take" /\ OneShot THEN Raise("AttributeError")
           ELSE IF k <= limit /\ item <= N
           THEN /\ i' = item
                /\ it' = IF k = 1 THEN Consumed(1, Stmt.op)
                         ELSE [it EXCEPT !.pos = IF OneShot THEN @ + 1 ELSE @]
                /\ trained' = IF k = 1
                              THEN Append(trained, [first |-> item, last |-> item])
                              ELSE [trained EXCEPT ![Len(trained)].last = item]
                /\ log' = IF k = 1 THEN Append(log, Event(Stmt.op, item)) ELSE log
                /\ names' = names \cup Stmt.defs
                /\ k' = k + 1
                /\ UNCHANGED <<pc, stmt>>
           ELSE /\ k' = 1
                /\ stmt' = stmt + 1
                /\ UNCHANGED <<pc, names, it, trained, i, log>>
    /\ UNCHANGED OtherVars

\* x, y = next(X_y)
RunNext ==
    /\ pc = "run" /\ stmt \in DOMAIN Script(nb)
    /\ Stmt.op = "next"
    /\ IF ~Bound THEN Raise("NameError")
       ELSE IF ~OneShot THEN Raise("TypeError")
       ELSE IF it.pos >= N THEN Raise("StopIteration")
       ELSE /\ i' = it.pos + 1
            /\ it' = Consumed(1, "next")
            /\ names' = names \cup Stmt.defs
            /\ stmt' = stmt + 1
            /\ UNCHANGED <<pc, trained, k, log>>
    /\ UNCHANGED OtherVars

\* a pass over a whole stream: progressive_val_score(X_y, model, ...),
\* progressive_val_score(X_y=datasets.Bikes(), ...), Counter(y for _, y in X_y),
\* for x, y in datasets.Restaurants(): ... with or without model.fit_one(x, y).
\* An iterator is read from where it stands and left exhausted; a dataset is
\* read from its first observation.
RunPass ==
    /\ pc = "run" /\ stmt \in DOMAIN Script(nb)
    /\ Stmt.op \in {"evaluate", "evaluate_inline", "count", "loop_inline", "fit_loop_inline"}
    /\ LET shared == Stmt.op \in {"evaluate", "count"}
           first == IF shared /\ OneShot THEN it.pos + 1 ELSE 1
       IN  IF ~Bound THEN Raise("NameError")
           ELSE /\ it' = IF shared /\ OneShot
                         THEN [it EXCEPT !.pos = N, !.users = Append(@, Stmt.op)]
                         ELSE it
                /\ trained' = IF Stmt.op \in {"evaluate", "evaluate_inline", "fit_loop_inline"}
                              THEN Append(trained, [first |-> first, last |-> N])
                              ELSE trained
                /\ i' = IF Stmt.op \in {"loop_inline", "fit_loop_inline"} THEN N ELSE i
                /\ log' = Append(log, Event(Stmt.op, first))
                /\ names' = names \cup Stmt.defs
                /\ stmt' = stmt + 1
                /\ UNCHANGED <<pc, k>>
    /\ UNCHANGED OtherVars

\* the last statement has run
RunEnd ==
    /\ pc = "run" /\ stmt = Len(Script(nb)) + 1
    /\ pc' = "done"
    /\ UNCHANGED <<stmt, names, it, trained, i, k, log>>
    /\ UNCHANGED OtherVars

InitCells ==
    /\ nb \in Notebooks
    /\ pc = "run"
    /\ stmt = 1
    /\ names = {}
    /\ it = NoStream
    /\ trained = <<>>
    /\ call \in {[n_observations |-> n, print_every |-> 0] :
                    n \in IF nb = "pipelines" THEN 1..MaxLen ELSE {n_observations(nb)}}
    /\ X_y = <<>>
    /\ i = 0
    /\ x = EmptyDict
    /\ k = 1
    /\ model = NoModel
    /\ st = Unfitted
    /\ ref = NoRef
    /\ y_pred = NoPrediction
    /\ log = <<>>
    /\ metric = <<>>
    /\ mementos = <<>>
    /\ preds = NoPreds
    /\ n_total_answers = 0
    /\ printed = <<>>
    /\ sampler = NoSampler
    /\ hedge = NoHedge

NextCells ==
    \/ RunBind \/ RunModel \/ RunStream \/ RunPeek \/ RunLoop \/ RunNext
    \/ RunPass \/ RunEnd

SpecCells ==
    InitCells /\ [][NextCells]_vars

\* the names bound by the statements before the one to run next
BoundBefore ==
    UNION {Script(nb)[n].defs : n \in 1..(stmt - 1)}

\* C11: in every notebook, run from its first statement in an empty namespace,
\* no statement raises NameError: every name the statement about to run reads
\* was bound by an earlier statement of the same notebook, and the namespace
\* holds nothing but the names those statements bound.
C11_NamesDefined ==
    stmt > 0 =>
        /\ pc # "NameError"
        /\ stmt \in DOMAIN Script(nb) => Stmt.uses \subseteq BoundBefore
        /\ stmt \in DOMAIN Script(nb) /\ k = 1 => Stmt.uses \subseteq names
        /\ names \subseteq BoundBefore \cup
              (IF stmt \in DOMAIN Script(nb) THEN Stmt.defs ELSE {})

\* "The art of using pipelines" is about to run model |= compose.Discard(*to_discard),
\* to_discard having been bound by the cell before
C11_Witness ==
    /\ nb = "pipelines" /\ pc = "run"
    /\ stmt \in DOMAIN Script(nb)
    /\ Stmt.line = 998
    /\ "to_discard" \in Stmt.uses /\ "to_discard" \in names

\* C12: in the bike-sharing tutorial, while the islice loop runs the model has
\* been fitted on the first observations of the stream and no other; when
\* model.debug_one(x) is about to run, the model was fitted on exactly the
\* first 10,000 observations, x is the 10,001st, which the model was never
\* fitted on, and X_y was read by the islice and by next only; neither raises.
C12_NextObservation ==
    (stmt > 0 /\ nb = "bikes") =>
        /\ pc \notin {"StopIteration", "TypeError", "AttributeError"}
        /\ (stmt \in DOMAIN Script(nb) /\ Stmt.line = 380) =>
              /\ it.pos = k - 1
              /\ k > 1 => trained = <<[first |-> 1, last |-> k - 1]>>
        /\ (stmt \in DOMAIN Script(nb) /\ Stmt.line = 385) =>
              /\ trained = <<[first |-> 1, last |-> SliceN]>>
              /\ i = SliceN + 1
              /\ ~FittedOn(i)
              /\ it = [kind |-> "iterator", pos |-> SliceN + 1,
                       users |-> <<"islice", "next">>]

\* model.debug_one(x) is about to run on the 10,001st observation
C12_Witness ==
    /\ nb = "bikes" /\ pc = "run"
    /\ stmt \in DOMAIN Script(nb)
    /\ Stmt.line = 385
    /\ i = 10001
    /\ \A j \in 1..10000 : FittedOn(j)

\* C18: an iterator bound to X_y is read by one evaluation, or by one islice
\* and then one next, and by nothing else before X_y is bound again; every
\* loop and every pass over a stream starts at the first observation of the
\* stream, and an evaluation fits the model on the whole stream; no statement
\* finds its iterator exhausted.
C18_FreshIterators ==
    stmt > 0 =>
        /\ OneShot => it.users \in {<<>>, <<"evaluate">>, <<"islice">>, <<"islice", "next">>}
        /\ it.pos <= N
        /\ \A n \in DOMAIN log : log[n].i = 1
        /\ \A n \in DOMAIN trained :
              trained[n].first = 1
        /\ (trained # <<>> /\ stmt > 1 /\ stmt - 1 \in DOMAIN Script(nb)
              /\ Script(nb)[stmt - 1].op \in {"evaluate", "evaluate_inline"}) =>
                 trained[Len(trained)] = [first |-> 1, last |-> N]
        /\ pc \notin {"StopIteration", "TypeError", "AttributeError"}

\* the bike-sharing tutorial has run to its end: three evaluations of X_y, the
\* islice loop and two evaluations of a new dataset, the last iterator read by
\* islice and next
C18_Witness ==
    /\ nb = "bikes" /\ pc = "done"
    /\ Len(log) = 6
    /\ it.kind = "dataset"
    /\ \E n \in DOMAIN log : log[n] = Event("islice", 1)

(***************************************************************************)
(* SpecSampler: "Working with imbalanced data", the evaluations of a       *)
(* classifier wrapped in a sampler.  progressive_val_score predicts and    *)
(* scores each observation, then calls fit_one of the wrapper, which       *)
(* decides how often the classifier is updated with it.                    *)
(***************************************************************************)
MaxSample == 4
\* longest stream of labelled observations explored

MaxRepeat == 2
\* largest number drawn for the repeats of one over-sampled observation

\* the two classes of datasets.CreditCard()
Classes ==
    {0, 1}

\* the streams explored: the labels of up to MaxSample observations
RECURSIVE Labelled(_)
Labelled(n) ==
    IF n = 0 THEN {<<>>}
    ELSE {<<[x |-> EmptyDict, y |-> c]>> \o rest : c \in Classes, rest \in Labelled(n - 1)}

\* every sampled cell wrapping its classifier in a RandomOverSampler
wrapper_over(cell) ==
    "RandomOverSampler"

\* the sampler that wraps the classifier in a cell of the notebook
wrapper(cell) ==
    CASE cell = "over" -> "RandomOverSampler"
      [] OTHER -> "RandomUnderSampler"

\* desired_dist={0: .8, 1: .2}, in tenths
desired_dist ==
    [c \in Classes |-> IF c = 0 THEN 8 ELSE 2]

\* the cells followed: under-sampling, over-sampling, under-sampling with a weighted loss
SampledCells ==
    {"under", "over", "hybrid"}

\* Counter: g[c] for a class not counted yet is 0
Count(g, c) ==
    IF c \in DOMAIN g THEN g[c] ELSE 0

\* whether the key of class a exceeds the key of class b: f[c] / g[c] for
\* under-sampling, g[c] / f[c] for over-sampling
Exceeds(kind, g, a, b) ==
    LET f == desired_dist
    IN  IF kind = "RandomUnderSampler" THEN f[a] * g[b] > f[b] * g[a]
        ELSE g[a] * f[b] > g[b] * f[a]

RECURSIVE ArgMax(_, _, _, _)
\* max(g.keys(), key=...): the first key, in the order the keys were added,
\* that no other key exceeds
ArgMax(kind, g, order, best) ==
    IF order = <<>> THEN best
    ELSE ArgMax(kind, g, Tail(order),
                IF Exceeds(kind, g, Head(order), best) THEN Head(order) ELSE best)

\* the pivot chosen by a sampler whose counts are g
Pivot(kind, order, g) ==
    ArgMax(kind, g, Tail(order), Head(order))

\* how often fit_one of the wrapper may update the classifier with an
\* observation of class y: once when y is the pivot; else, under-sampling,
\* once or never when ratio < 1 (the draw of rng.random() decides) and never
\* otherwise; over-sampling, a number drawn from a Poisson distribution
Updates(kind, pivot_before, pivot_after, g, y) ==
    LET f == desired_dist
    IN  IF pivot_before = {y} THEN {1}
        ELSE IF kind = "RandomUnderSampler"
        THEN IF f[y] * g[pivot_after] < f[pivot_after] * g[y] THEN {0, 1} ELSE {0}
        ELSE 0..MaxRepeat

\* variables the evaluation of a sampled classifier leaves alone
SamplerOther ==
    <<nb, X_y, x, k, model, st, ref, y_pred, mementos, preds, printed, call,
      ScriptVars, hedge>>

\* model = StandardScaler() | sampling.RandomUnderSampler(classifier=..., desired_dist=..., seed=42)
SamplerBuild ==
    /\ nb \in SampledCells /\ pc = "build"
    /\ sampler' = [kind |-> wrapper(nb), actual_dist |-> <<>>, seen |-> <<>>,
                   pivot |-> {}]
    /\ pc' = "next"
    /\ UNCHANGED <<i, log, metric, n_total_answers>>
    /\ UNCHANGED SamplerOther

\* progressive_val_score: the next observation of the stream
SamplerNext ==
    /\ nb \in SampledCells /\ pc = "next"
    /\ IF i < Len(X_y)
       THEN /\ i' = i + 1
            /\ pc' = "predict"
       ELSE /\ pc' = "done"
            /\ UNCHANGED i
    /\ UNCHANGED <<sampler, log, metric, n_total_answers>>
    /\ UNCHANGED SamplerOther

\* y_pred = model.predict_proba_one(x); metric.update(y, y_pred)
SamplerPredict ==
    /\ nb \in SampledCells /\ pc = "predict"
    /\ log' = Append(log, Event("predict_one", i))
    /\ metric' = Append(metric, [i |-> i, y_pred |-> NoPrediction])
    /\ pc' = "fit"
    /\ UNCHANGED <<i, sampler, n_total_answers>>
    /\ UNCHANGED SamplerOther

RECURSIVE Repeat(_, _)
Repeat(e, n) ==
    IF n = 0 THEN <<>> ELSE <<e>> \o Repeat(e, n - 1)

\* model.fit_one(x, y): the sampler counts the class, moves its pivot when the
\* class is not the pivot, and updates the classifier as often as it decides
SamplerFit ==
    /\ nb \in SampledCells /\ pc = "fit"
    /\ LET y == X_y[i].y
           g == [c \in DOMAIN sampler.actual_dist \cup {y} |->
                    Count(sampler.actual_dist, c) + (IF c = y THEN 1 ELSE 0)]
           order == IF y \in DOMAIN sampler.actual_dist THEN sampler.seen
                    ELSE Append(sampler.seen, y)
           pivot == IF sampler.pivot = {y} THEN y ELSE Pivot(sampler.kind, order, g)
       IN  \E n \in Updates(sampler.kind, sampler.pivot, pivot, g, y) :
              /\ sampler' = [sampler EXCEPT !.actual_dist = g, !.seen = order,
                                            !.pivot = {pivot}]
              /\ log' = log \o Repeat(Event("classifier.fit_one", i), n)
    /\ n_total_answers' = n_total_answers + 1
    /\ pc' = "next"
    /\ UNCHANGED <<i, metric>>
    /\ UNCHANGED SamplerOther

InitSampler ==
    /\ nb \in SampledCells
    /\ pc = "build"
    /\ X_y \in UNION {Labelled(n) : n \in 1..MaxSample}
    /\ i = 0
    /\ x = EmptyDict
    /\ k = 1
    /\ model = NoModel
    /\ st = Unfitted
    /\ ref = NoRef
    /\ y_pred = NoPrediction
    /\ log = <<>>
    /\ metric = <<>>
    /\ mementos = <<>>
    /\ preds = NoPreds
    /\ n_total_answers = 0
    /\ printed = <<>>
    /\ call = NoCall
    /\ Unused

NextSampler ==
    SamplerBuild \/ SamplerNext \/ SamplerPredict \/ SamplerFit

SpecSampler ==
    InitSampler /\ [][NextSampler]_vars

\* the updates of the wrapped classifier with observation j
ClassifierUpdates(j) ==
    {n \in DOMAIN log : log[n] = Event("classifier.fit_one", j)}

\* the predictions made for observation j
Predictions(j) ==
    {n \in DOMAIN log : log[n] = Event("predict_one", j)}

\* C13: in the cells that wrap the classifier in a RandomUnderSampler, each
\* observation read updates the classifier once or not at all, so that the
\* classifier's updates never outnumber the observations read, and each
\* observation read was predicted once, and scored once it was predicted.
C13_AtMostOneUpdate ==
    nb \in {"under", "hybrid"} =>
        /\ \A j \in 1..Len(X_y) :
              /\ Cardinality(ClassifierUpdates(j)) <= (IF j <= i THEN 1 ELSE 0)
              /\ Cardinality(Predictions(j))
                    = (IF j < i \/ (j = i /\ pc # "predict") THEN 1 ELSE 0)
        /\ Cardinality({n \in DOMAIN log : log[n].op = "classifier.fit_one"}) <= i
        /\ Len(metric) = Cardinality({n \in DOMAIN log : log[n].op = "predict_one"})
        /\ \A n \in DOMAIN metric : metric[n].i = n
        /\ pc = "done" => Len(metric) = Len(X_y)

\* the evaluation has returned from a stream of four observations, two of
\* class 0 then two of class 1, all of them scored; the classifier was updated
\* with the second, of the pivot class, and of the two of class 1 the draw
\* skipped the third and kept the fourth
C13_Witness ==
    /\ nb = "under" /\ pc = "done"
    /\ Len(X_y) = 4 /\ Len(metric) = 4
    /\ X_y[2].y = 0 /\ X_y[3].y = 1 /\ X_y[4].y = 1
    /\ ClassifierUpdates(1) = {} /\ ClassifierUpdates(3) = {}
    /\ Cardinality(ClassifierUpdates(2)) = 1
    /\ Cardinality(ClassifierUpdates(4)) = 1

(***************************************************************************)
(* SpecHedge: the last cell of the bike-sharing tutorial, a HedgeRegressor *)
(* of three linear regressions.  fit_one of the ensemble goes through its  *)
(* regressors: each predicts x, its weight is multiplied by a factor       *)
(* computed from the loss of that prediction, and it is fitted with        *)
(* (x, y); the weights are normalised at the end.  The order in which the  *)
(* regressors are gone through is left open.                               *)
(***************************************************************************)
MaxHedge == 3
\* longest stream explored

\* one LinearRegression object listed three times
RegressorsShared ==
    <<"SGD", "SGD", "SGD">>

\* [LinearRegression(optim.SGD()), LinearRegression(optim.RMSProp()),
\*  LinearRegression(optim.Adam())]: three objects, each named by its optimizer
Regressors ==
    <<"SGD", "RMSProp", "Adam">>

\* the first n observations, in order
FirstObs(n) ==
    [m \in 1..n |-> m]

\* variables the evaluation of the ensemble leaves alone
HedgeOther ==
    <<nb, X_y, x, k, model, st, ref, metric, mementos, preds, printed, call,
      ScriptVars, sampler>>

\* model |= ensemble.HedgeRegressor([...])
HedgeBuild ==
    /\ nb = "hedge" /\ pc = "build"
    /\ hedge' = [regressors |-> Regressors,
                 fitted |-> [o \in Range(Regressors) |-> <<>>],
                 weights |-> [r \in DOMAIN Regressors |-> <<>>],
                 pending |-> {}]
    /\ pc' = "next"
    /\ UNCHANGED <<i, y_pred, log, n_total_answers>>
    /\ UNCHANGED HedgeOther

\* the next observation of the stream
HedgeNext ==
    /\ nb = "hedge" /\ pc = "next"
    /\ IF i < call.n_observations
       THEN /\ i' = i + 1
            /\ pc' = "predict"
       ELSE /\ pc' = "done"
            /\ UNCHANGED i
    /\ UNCHANGED <<hedge, y_pred, log, n_total_answers>>
    /\ UNCHANGED HedgeOther

\* HedgeRegressor.predict_one(x): the weighted sum of the regressors'
\* predictions; fit_one(x, y) is entered next, every regressor still to do
HedgePredict ==
    /\ nb = "hedge" /\ pc = "predict"
    /\ y_pred' = [keys |-> {},
                  deps |-> UNION {Range(hedge.fitted[o]) : o \in DOMAIN hedge.fitted}]
    /\ log' = Append(log, Event("predict_one", i))
    /\ hedge' = [hedge EXCEPT !.pending = DOMAIN hedge.regressors]
    /\ pc' = "fit"
    /\ UNCHANGED <<i, n_total_answers>>
    /\ UNCHANGED HedgeOther

\* one regressor's turn in fit_one: y_pred = regressor.predict_one(x), the
\* weight's factor from the loss of y_pred, then regressor.fit_one(x, y)
HedgeFitRegressor ==
    /\ nb = "hedge" /\ pc = "fit"
    /\ \E r \in hedge.pending :
          LET o == hedge.regressors[r]
          IN  /\ hedge' = [hedge EXCEPT
                    !.weights[r] = Append(@, [i |-> i, seen |-> hedge.fitted[o]]),
                    !.fitted[o] = Append(@, i),
                    !.pending = @ \ {r}]
              /\ log' = Append(log, Event(o, i))
    /\ UNCHANGED <<i, pc, y_pred, n_total_answers>>
    /\ UNCHANGED HedgeOther

\* every regressor had its turn: the weights are normalised, fit_one returns
HedgeFitEnd ==
    /\ nb = "hedge" /\ pc = "fit"
    /\ hedge.pending = {}
    /\ n_total_answers' = n_total_answers + 1
    /\ pc' = "next"
    /\ UNCHANGED <<i, hedge, y_pred, log>>
    /\ UNCHANGED HedgeOther

InitHedge ==
    /\ nb = "hedge"
    /\ pc = "build"
    /\ call \in {[n_observations |-> n, print_every |-> 0] : n \in 1..MaxHedge}
    /\ X_y = <<>>
    /\ i = 0
    /\ x = EmptyDict
    /\ k = 1
    /\ model = NoModel
    /\ st = Unfitted
    /\ ref = NoRef
    /\ y_pred = NoPrediction
    /\ log = <<>>
    /\ metric = <<>>
    /\ mementos = <<>>
    /\ preds = NoPreds
    /\ n_total_answers = 0
    /\ printed = <<>>
    /\ Unused

NextHedge ==
    HedgeBuild \/ HedgeNext \/ HedgePredict \/ HedgeFitRegressor \/ HedgeFitEnd

SpecHedge ==
    InitHedge /\ [][NextHedge]_vars

\* the observations the regressor at place r has been fitted with so far,
\* were each regressor fitted once with every observation: all those read,
\* but for the current one while its turn is still to come
FittedOnce(r) ==
    FirstObs(IF pc = "predict" \/ (pc = "fit" /\ r \in hedge.pending) THEN i - 1 ELSE i)

\* C14: the three regressors of the ensemble are three objects; whatever the
\* order of their turns, each was fitted exactly once with every observation
\* whose turn it had, oldest first, and each factor of its weight was
\* computed from its own state, fitted with the earlier observations only; so
\* that between two observations the state of the ensemble is the same for
\* every order of the turns.
C14_EachOnce ==
    (nb = "hedge" /\ pc # "build") =>
        /\ Len(hedge.regressors) = 3
        /\ Cardinality(Range(hedge.regressors)) = 3
        /\ \A r \in DOMAIN hedge.regressors :
              /\ hedge.fitted[hedge.regressors[r]] = FittedOnce(r)
              /\ hedge.weights[r]
                    = [n \in DOMAIN FittedOnce(r) |-> [i |-> n, seen |-> FirstObs(n - 1)]]
        /\ pc = "fit" \/ hedge.pending = {}

\* three observations were read; for the first the regressors had their turns
\* in the order Adam, SGD, RMSProp, for the second in the order of the list
C14_Witness ==
    /\ nb = "hedge" /\ pc = "done" /\ i = 3
    /\ SelectSeq(log, LAMBDA e : e.i = 1)
          = <<Event("predict_one", 1), Event("Adam", 1), Event("SGD", 1), Event("RMSProp", 1)>>
    /\ SelectSeq(log, LAMBDA e : e.i = 2)
          = <<Event("predict_one", 2), Event("SGD", 2), Event("RMSProp", 2), Event("Adam", 2)>>
    /\ \A o \in Range(Regressors) : hedge.fitted[o] = <<1, 2, 3>>

====
